---- MODULE Spec2Model ----
(***************************************************************************)
(* Model of the Gmail client of kristofferaas/cucumber:                    *)
(*   - fetchMessages   (apps/web/app/mail/_components/fetch-messages.ts)   *)
(*   - executeBatch    (src/server/gmail/api.ts)                           *)
(*   - processMessagePart and its helpers (process-message.ts,             *)
(*     parse-headers.ts, get-mime-type.ts, decode-data.ts)                 *)
(*   - fetchInfiniteMessages (src/server/gmail/api.ts)                     *)
(*   - replaceInlineAttachments (the message view)                         *)
(* Each operation has its own specification (SpecFetch, SpecBatch,         *)
(* SpecPart, ...); the variables of the other operations stay at their     *)
(* idle values.                                                            *)
(***************************************************************************)
EXTENDS Integers, Sequences, FiniteSets, TLC

VARIABLES
    \* ---- fetchMessages ----
    fm_pc,          \* position of the async function
    pageToken,      \* the pageToken argument (None = undefined)
    user,           \* the user argument: "none" | "noscope" | "ok"
    listData,       \* parsedListData: [messages, nextPageToken]
    boundary,       \* the random boundary of the batch request
    batchResponse,  \* last response of the batch POST (None = undefined)
    retryCount,     \* retryCount of the retry loop
    trace,          \* what the call did on the network and the clock, in order
    fm_result,      \* value returned or error thrown (Pending while running)
    \* ---- executeBatch ----
    eb_pc,          \* position of the async function
    requests,       \* the requests argument
    eb_boundary,    \* the random boundary of the request
    eb_posts,       \* the POSTs sent to GMAIL_BATCH_URL, in order
    eb_response,    \* what fetch resolved or rejected with
    eb_result,      \* Ok / Err returned (Pending while running)
    \* ---- processMessagePart ----
    pp_pc,          \* "idle" before the call, "done" after it
    payload,        \* the MessagePart argument
    pp_result,      \* Ok / Err returned, with the parts visited on the way
    \* ---- fetchInfiniteMessages ----
    fi_pc,          \* position of the async function
    fi_pageToken,   \* the pageToken argument (None = undefined)
    fi_list,        \* the parsed list response: [messages, nextPageToken]
    fi_trace,       \* the requests sent and the answers received, in order
    fi_result,      \* Ok / Err returned (Pending while running)
    \* ---- pure helpers called on their own ----
    fn_pc,          \* "idle" before the call, "done" after it
    fn_args,        \* the arguments of the call
    fn_result,      \* what the call returned
    \* ---- the message view (FullMessage) ----
    vw_pc,              \* "idle" before the view is rendered, then "rendered"
    vw_parts,           \* the inline attachment parts of the message, in order
    html,               \* the HTML body found in the message
    inlineAttachments,  \* the Map content-id -> data URI
    processedHtmlState, \* the HTML the view shows
    fetching,           \* content-ids whose fetchAttachment is in flight
    loaded,             \* content-ids whose payload arrived, in arrival order
    started             \* the fetches started, in order: [render, cid]

fmVars == <<fm_pc, pageToken, user, listData, boundary, batchResponse,
            retryCount, trace, fm_result>>

ebVars == <<eb_pc, requests, eb_boundary, eb_posts, eb_response, eb_result>>

ppVars == <<pp_pc, payload, pp_result>>

fiVars == <<fi_pc, fi_pageToken, fi_list, fi_trace, fi_result>>

fnVars == <<fn_pc, fn_args, fn_result>>

vwVars == <<vw_pc, vw_parts, html, inlineAttachments, processedHtmlState,
            fetching, loaded, started>>

vars == <<fmVars, ebVars, ppVars, fiVars, fnVars, vwVars>>

\* the variables an operation leaves alone
fmOthers == <<ebVars, ppVars, fiVars, fnVars, vwVars>>
ebOthers == <<fmVars, ppVars, fiVars, fnVars, vwVars>>
ppOthers == <<fmVars, ebVars, fiVars, fnVars, vwVars>>
fiOthers == <<fmVars, ebVars, ppVars, fnVars, vwVars>>
fnOthers == <<fmVars, ebVars, ppVars, fiVars, vwVars>>
vwOthers == <<fmVars, ebVars, ppVars, fiVars, fnVars>>

None == "undefined"

(***************************************************************************)
(* fetchMessages                                                           *)
(***************************************************************************)

\* const MAX_RETRIES = 3
MAX_RETRIES == 3

\* const BATCH_SIZE = 20
BATCH_SIZE == 20

\* ---- bounds of the environment ----
\* number of message ids the list request may return (beyond BATCH_SIZE ones)
MaxListed == 2
\* largest Retry-After value (seconds) the server states
MaxRetryAfter == 2
\* cap on the length of the recorded trace
MaxEvents == 16

PageTokens == {"p1", "p2"}
NextTokens == {"p2", "p3"}
Boundaries == {"batch_boundary_r1", "batch_boundary_r2"}

\* Values of the Retry-After header: absent (headers.get gives null), a
\* delay in seconds, or text that parseInt cannot read (an HTTP-date).
NoHeader == [kind |-> "absent"]
RetryAfterValues ==
    {NoHeader, [kind |-> "date"]} \cup {[kind |-> "seconds", n |-> k] : k \in 0..MaxRetryAfter}

\* JavaScript numbers: a finite value or NaN
Num(k) == [nan |-> FALSE, n |-> k]
NaN == [nan |-> TRUE, n |-> 0]
Times(x, k) == IF x.nan THEN NaN ELSE Num(x.n * k)

\* parseInt(retryAfter, 10): NaN when the text does not start with digits
ParseInt(h) == IF h.kind = "seconds" THEN Num(h.n) ELSE NaN

\* sleep(ms): setTimeout(resolve, ms); a NaN delay is a delay of 0
sleep(ms) == [kind |-> "wait", ms |-> IF ms.nan THEN 0 ELSE ms.n]

\* retryAfter ? parseInt(retryAfter, 10) * 1000 : 2000   (list request)
ListWaitTime(retryAfter) ==
    IF retryAfter # NoHeader
    THEN Times(ParseInt(retryAfter), 1000)
    ELSE Num(2000)

\* a backoff that does not grow with the attempts
BatchWaitTime_Fixed(retryAfter, rc) ==
    IF retryAfter # NoHeader
    THEN Times(ParseInt(retryAfter), 1000)
    ELSE Num(2000)

\* retryAfter ? parseInt(retryAfter, 10) * 1000 : Math.pow(2, retryCount + 1) * 1000
BatchWaitTime(retryAfter, rc) ==
    IF retryAfter # NoHeader
    THEN Times(ParseInt(retryAfter), 1000)
    ELSE Num((2 ^ (rc + 1)) * 1000)

\* Math.pow(2, retryCount) * 1000 in the catch branch
ErrorWaitTime(rc) == Num((2 ^ rc) * 1000)

\* the response variable before any answer (let batchResponse: undefined)
NoResponse == [status |-> 0, retryAfter |-> NoHeader]

\* values a call ends with
Pending == [kind |-> "pending"]
Throw(m) == [kind |-> "throw", message |-> m]
Return(v) == [kind |-> "return", value |-> v]

\* an operation that is not running
EbIdle ==
    /\ eb_pc = "idle"
    /\ requests = <<>>
    /\ eb_boundary = None
    /\ eb_posts = <<>>
    /\ eb_response = [kind |-> "none"]
    /\ eb_result = Pending

FmIdle ==
    /\ fm_pc = "idle"
    /\ pageToken = None
    /\ user = "none"
    /\ listData = [messages |-> <<>>, nextPageToken |-> None]
    /\ boundary = None
    /\ batchResponse = NoResponse
    /\ retryCount = 0
    /\ trace = <<>>
    /\ fm_result = Pending

PpIdle ==
    /\ pp_pc = "idle"
    /\ payload = [mimeType |-> <<>>]
    /\ pp_result = Pending

FiIdle ==
    /\ fi_pc = "idle"
    /\ fi_pageToken = None
    /\ fi_list = [messages |-> <<>>, nextPageToken |-> None]
    /\ fi_trace = <<>>
    /\ fi_result = Pending

FnIdle ==
    /\ fn_pc = "idle"
    /\ fn_args = [name |-> "none"]
    /\ fn_result = Pending

VwIdle ==
    /\ vw_pc = "idle"
    /\ vw_parts = <<>>
    /\ html = <<>>
    /\ inlineAttachments = <<>>
    /\ processedHtmlState = <<>>
    /\ fetching = {}
    /\ loaded = <<>>
    /\ started = <<>>


\* the multipart body built from the listed ids and the boundary
BatchBody(b, ids) ==
    [boundary |-> b,
     parts |-> [i \in 1..Len(ids) |->
                  [contentId |-> <<"item", i - 1>>,
                   line |-> <<"GET", "/gmail/v1/users/me/messages/", ids[i]>>]]]

\* the POST of one loop iteration: fetch(url, {headers, body})
BatchPost(b, ids, rc) ==
    [kind |-> "submit",
     url |-> "https://www.googleapis.com/batch/gmail/v1",
     contentType |-> <<"multipart/mixed; boundary=", b>>,
     body |-> BatchBody(b, ids)]

\* a catch branch that forgets to count the attempt
RetryCountAfterError_Kept(rc) == rc

\* retryCount++ of the catch branch
RetryCountAfterError(rc) == rc + 1

\* nextPageToken of the result returned when the retries are used up
RateLimitedCursor(pt, ld) == ld.nextPageToken

\* parsedListData.messages.slice(0, BATCH_SIZE)
Slice(s, n) == IF Len(s) <= n THEN s ELSE SubSeq(s, 1, n)

messagesToFetch == Slice(listData.messages, BATCH_SIZE)

Submissions == Cardinality({i \in 1..Len(trace) : trace[i].kind = "submit"})

InitFetch ==
    /\ fm_pc = "start"
    /\ pageToken \in PageTokens \cup {None}
    /\ user \in {"none", "noscope", "ok"}
    /\ listData = [messages |-> <<>>, nextPageToken |-> None]
    /\ boundary = None
    /\ batchResponse = NoResponse
    /\ retryCount = 0
    /\ trace = <<>>
    /\ fm_result = Pending
    /\ EbIdle
    /\ PpIdle
    /\ FiIdle
    /\ FnIdle
    /\ VwIdle

\* lines 59-88: the guards on the user, then the list request is sent
FetchList ==
    /\ fm_pc = "start"
    /\ IF user = "none"
       THEN /\ fm_pc' = "threw"
            /\ fm_result' = Throw("No user found")
            /\ trace' = trace
       ELSE IF user = "noscope"
       THEN /\ fm_pc' = "threw"
            /\ fm_result' = Throw("Reauthorization required")
            /\ trace' = Append(trace, [kind |-> "reauthorize"])
       ELSE /\ fm_pc' = "listing"
            /\ fm_result' = fm_result
            /\ trace' = Append(trace, [kind |-> "list", pageToken |-> pageToken])
    /\ UNCHANGED <<pageToken, user, listData, boundary, batchResponse, retryCount>>
    /\ UNCHANGED fmOthers

\* lines 90-108: the list request is answered 429
ListRateLimited ==
    /\ fm_pc = "listing"
    /\ \E retryAfter \in RetryAfterValues :
         trace' = trace \o <<[kind |-> "resp429", retryAfter |-> retryAfter, of |-> "list"],
                             sleep(ListWaitTime(retryAfter))>>
    /\ fm_result' = Return([messages |-> <<>>, nextPageToken |-> None,
                     totalMessages |-> 0, fetchedCount |-> 0, rateLimited |-> TRUE])
    /\ fm_pc' = "done"
    /\ UNCHANGED <<pageToken, user, listData, boundary, batchResponse, retryCount>>
    /\ UNCHANGED fmOthers

\* lines 110-144: the list request is answered with a message list
ListAnswered ==
    /\ fm_pc = "listing"
    /\ \E n \in 0..MaxListed, next \in NextTokens \cup {None}, b \in Boundaries :
         LET ids == [i \in 1..n |-> i]
             ld  == [messages |-> ids, nextPageToken |-> next]
         IN  /\ listData' = ld
             /\ IF n = 0
                THEN /\ fm_result' = Return([messages |-> <<>>, nextPageToken |-> next,
                                      fetchedCount |-> 0, rateLimited |-> FALSE])
                     /\ fm_pc' = "done"
                     /\ boundary' = boundary
                ELSE /\ fm_result' = fm_result
                     /\ fm_pc' = "loop"
                     /\ boundary' = b
    /\ UNCHANGED <<pageToken, user, batchResponse, retryCount, trace>>
    /\ UNCHANGED fmOthers

\* line 111: messageListSchema.parse throws on a body of another shape
ListInvalid ==
    /\ fm_pc = "listing"
    /\ fm_pc' = "threw"
    /\ fm_result' = Throw("ZodError")
    /\ UNCHANGED <<pageToken, user, listData, boundary, batchResponse, retryCount, trace>>
    /\ UNCHANGED fmOthers

\* lines 151-160 and 205-259: one test of the loop condition; either the POST
\* is sent, or the loop is left and the response at hand is processed
BatchLoop ==
    /\ fm_pc = "loop"
    /\ Len(trace) < MaxEvents
    /\ IF retryCount <= MAX_RETRIES
       THEN /\ trace' = Append(trace, BatchPost(boundary, messagesToFetch, retryCount))
            /\ fm_pc' = "posted"
            /\ fm_result' = fm_result
       ELSE /\ trace' = trace
            /\ IF batchResponse = NoResponse
               THEN /\ fm_pc' = "threw"
                    /\ fm_result' = Throw("Failed to fetch batch response after retries")
               ELSE /\ fm_pc' = "done"
                    /\ fm_result' = Return([messages |-> <<>>,
                                     nextPageToken |-> listData.nextPageToken,
                                     fetchedCount |-> 0, rateLimited |-> FALSE])
    /\ UNCHANGED <<pageToken, user, listData, boundary, batchResponse, retryCount>>
    /\ UNCHANGED fmOthers

\* lines 163-186: the POST is answered 429
BatchRateLimited ==
    /\ fm_pc = "posted"
    /\ \E retryAfter \in RetryAfterValues :
         /\ batchResponse' = [status |-> 429, retryAfter |-> retryAfter]
         /\ trace' = trace \o <<[kind |-> "resp429", retryAfter |-> retryAfter, of |-> "batch"],
                                sleep(BatchWaitTime(retryAfter, retryCount))>>
    /\ retryCount' = retryCount + 1
    /\ IF retryCount' > MAX_RETRIES
       THEN /\ fm_pc' = "done"
            /\ fm_result' = Return([messages |-> <<>>,
                             nextPageToken |-> RateLimitedCursor(pageToken, listData),
                             fetchedCount |-> 0, rateLimited |-> TRUE])
       ELSE /\ fm_pc' = "loop"
            /\ fm_result' = fm_result
    /\ UNCHANGED <<pageToken, user, listData, boundary>>
    /\ UNCHANGED fmOthers

\* lines 191-202: fetch rejects (network error)
BatchThrew ==
    /\ fm_pc = "posted"
    /\ retryCount' = RetryCountAfterError(retryCount)
    /\ IF retryCount' > MAX_RETRIES
       THEN /\ fm_pc' = "threw"
            /\ fm_result' = Throw("Max retries exceeded for batch request")
            /\ trace' = Append(trace, [kind |-> "error"])
       ELSE /\ fm_pc' = "loop"
            /\ fm_result' = fm_result
            /\ trace' = trace \o <<[kind |-> "error"], sleep(ErrorWaitTime(retryCount'))>>
    /\ UNCHANGED <<pageToken, user, listData, boundary, batchResponse>>
    /\ UNCHANGED fmOthers

\* lines 187-190 and 205-259: any other answer leaves the loop; its parts are
\* parsed and the messages that validate are returned with the list's cursor
BatchAnswered ==
    /\ fm_pc = "posted"
    /\ \E status \in {200, 403}, delivered \in 0..MaxListed :
         /\ delivered <= Len(messagesToFetch)
         /\ status # 200 => delivered = 0
         /\ batchResponse' = [status |-> status, retryAfter |-> NoHeader]
         /\ trace' = Append(trace, [kind |-> "resp", status |-> status])
         /\ fm_result' = Return([messages |-> SubSeq(messagesToFetch, 1, delivered),
                          nextPageToken |-> listData.nextPageToken,
                          fetchedCount |-> delivered, rateLimited |-> FALSE])
    /\ fm_pc' = "done"
    /\ UNCHANGED <<pageToken, user, listData, boundary, retryCount>>
    /\ UNCHANGED fmOthers

NextFetch ==
    \/ FetchList
    \/ ListRateLimited
    \/ ListAnswered
    \/ ListInvalid
    \/ BatchLoop
    \/ BatchRateLimited
    \/ BatchThrew
    \/ BatchAnswered

SpecFetch == InitFetch /\ [][NextFetch]_vars

\* every pending network call or timer of the call eventually completes
FairSpecFetch == SpecFetch /\ WF_vars(NextFetch)

(***************************************************************************)
(* Properties of fetchMessages                                             *)
(***************************************************************************)

Terminated == fm_pc \in {"done", "threw"}

IsSubmit(i) == trace[i].kind = "submit"
Is429(i) == trace[i].kind = "resp429" /\ trace[i].of = "batch"
SubmitsBefore(i) == Cardinality({k \in 1..(i - 1) : IsSubmit(k)})
FirstSubmit == CHOOSE i \in 1..Len(trace) : IsSubmit(i) /\ SubmitsBefore(i) = 0
\* the answer a resubmission follows: the last answer before position i
LastAnswerBefore(i) ==
    CHOOSE j \in 1..(i - 1) :
        /\ trace[j].kind \in {"resp429", "error", "resp"}
        /\ \A k \in (j + 1)..(i - 1) : trace[k].kind \notin {"resp429", "error", "resp"}
Resubmission(i) == IsSubmit(i) /\ SubmitsBefore(i) > 0
ResubmissionAfter429(i) == Resubmission(i) /\ Is429(LastAnswerBefore(i))

\* the batch POST was answered 429 on every one of the MAX_RETRIES + 1 attempts
CeilingExceededBy429 ==
    /\ fm_pc = "done"
    /\ Cardinality({i \in 1..Len(trace) : Is429(i)}) = MAX_RETRIES + 1

\* C1: when the batch POST is answered 429 on every attempt until the retry
\* ceiling is exceeded, fetchMessages returns an empty message list and a
\* nextPageToken equal to the pageToken that was passed in.
C1_CursorUnchangedAfterCeiling ==
    CeilingExceededBy429 =>
        /\ fm_result.kind = "return"
        /\ fm_result.value.messages = <<>>
        /\ fm_result.value.nextPageToken = pageToken

C7_BoundedRetryLoop ==
    /\ [](Submissions <= MAX_RETRIES + 1)
    /\ <>Terminated

\* a call that ended after MAX_RETRIES + 1 submissions answered by a mix of
\* network errors and 429
C7_Witness ==
    /\ Terminated
    /\ Submissions = MAX_RETRIES + 1
    /\ \E i, k \in 1..Len(trace) : Is429(i) /\ trace[k].kind = "error"

\* number of 429 answers to the list request
ListRateLimits ==
    Cardinality({i \in 1..Len(trace) :
                    trace[i].kind = "resp429" /\ trace[i].of = "list"})

\* C20: a 429 answer to the list request is followed by a wait and a
\* resubmission of the list request, so a call ends on list 429s only once
\* the retry ceiling is exceeded (MAX_RETRIES + 1 answers 429), and the
\* cursor it then returns is the pageToken passed in.
C20_ListRetriedUntilCeiling ==
    (fm_pc = "done" /\ ListRateLimits > 0) =>
        /\ ListRateLimits = MAX_RETRIES + 1
        /\ fm_result.kind = "return"
        /\ fm_result.value.nextPageToken = pageToken

(***************************************************************************)
(* Text.  A string is a sequence of tokens; a token stands for a run of    *)
(* characters that the code never cuts ("CRLF" is \r\n, "HTTP" the four    *)
(* letters, "-" one hyphen).  indexOf, split, trim and the regular         *)
(* expressions of the code are computed on these sequences.                *)
(***************************************************************************)

Min(S) == CHOOSE x \in S : \A y \in S : x <= y

\* tokens made only of [a-zA-Z0-9_]
DigitTokens == {ToString(n) : n \in 0..101} \cup {"200", "404", "500"}
WordTokens ==
    {"a", "b", "_", "r1", "x", "y", "z", "w", "batch", "response", "HTTP", "OK"}
        \cup DigitTokens

IsWord(t) == t \in WordTokens
IsDigits(t) == t \in DigitTokens
IsVersion(t) == t \in {"1.1", "2"}
WhiteSpace == {" ", "CRLF"}

\* parseInt(t, 10) of a token of digits
DigitsValue(t) == CHOOSE n \in 0..999 : ToString(n) = t

MatchesAt(t, pat, i) ==
    /\ i >= 1
    /\ i + Len(pat) - 1 <= Len(t)
    /\ \A k \in 1..Len(pat) : t[i + k - 1] = pat[k]

\* String.prototype.indexOf(pat, from): positions count from 1, 0 is "not found"
IndexOf(t, pat, from) ==
    LET hits == {i \in from..Len(t) : MatchesAt(t, pat, i)}
    IN  IF hits = {} THEN 0 ELSE Min(hits)

Substring(t, from) == SubSeq(t, from, Len(t))

\* String.prototype.split(sep)
RECURSIVE Split(_, _)
Split(t, sep) ==
    LET i == IndexOf(t, sep, 1)
    IN  IF i = 0
        THEN <<t>>
        ELSE <<SubSeq(t, 1, i - 1)>> \o Split(Substring(t, i + Len(sep)), sep)

\* String.prototype.trim()
RECURSIVE Trim(_)
Trim(t) ==
    IF t = <<>> THEN t
    ELSE IF t[1] \in WhiteSpace THEN Trim(Tail(t))
    ELSE IF t[Len(t)] \in WhiteSpace THEN Trim(SubSeq(t, 1, Len(t) - 1))
    ELSE t

\* longest run of word tokens of t starting at position i
RECURSIVE WordRun(_, _)
WordRun(t, i) ==
    IF i > Len(t) \/ ~IsWord(t[i]) THEN <<>> ELSE <<t[i]>> \o WordRun(t, i + 1)

(***************************************************************************)
(* executeBatch (src/server/gmail/api.ts)                                  *)
(***************************************************************************)

\* if (requests.length > 100)
MAX_BATCH == 100

\* ---- bounds of the environment ----
\* largest small batch (the batches of MAX_BATCH and MAX_BATCH + 1 requests
\* are modelled besides)
MaxReq == 2
\* largest number of parts in a response
MaxParts == 3

GMAIL_BATCH_URL == "https://www.googleapis.com/batch/gmail/v1"

RequestIds == <<"x", "y", "z", "w">>
RequestBoundaries == {<<"batch", "_", "r1">>}

\* boundaries the server may choose: word characters only, a hyphen inside,
\* a non-word character first
ServerBoundaries == {<<"a", "b">>, <<"a", "-", "b">>, <<"=", "_", "a">>}

\* request.id ?? `batch-${index}`   (index counts from 0)
ContentIdOf(request, index) ==
    IF request.id # None THEN <<request.id>> ELSE <<"batch", "-", ToString(index)>>

\* lines 161-195: the parts of the multipart request body
RequestBody(reqs, b) ==
    [boundary |-> b,
     parts |-> [k \in 1..Len(reqs) |->
                  [contentId |-> ContentIdOf(reqs[k], k - 1),
                   line |-> <<reqs[k].method, "/gmail/v1/users/me", reqs[k].path>>]]]

\* /--([a-zA-Z0-9_]+)/.exec(responseText): the captured group, <<>> without a match
ResponseBoundaryMatch(text) ==
    LET hits == {i \in 1..Len(text) :
                    /\ MatchesAt(text, <<"-", "-">>, i)
                    /\ i + 2 <= Len(text)
                    /\ IsWord(text[i + 2])}
    IN  IF hits = {} THEN <<>> ELSE WordRun(text, Min(hits) + 2)

\* responseBoundaryMatch ? responseBoundaryMatch[1] : boundary
ResponseBoundary(text, b) ==
    IF ResponseBoundaryMatch(text) # <<>> THEN ResponseBoundaryMatch(text) ELSE b

\* /Content-ID: <response-(.*?)>/i.exec(part): the captured group of the
\* first match ("." does not cross a line end); Unmatched without a match
Unmatched == <<"\\unmatched">>
ContentIdPattern == <<"Content-ID", ":", " ", "<", "response", "-">>
ContentIdMatch(part) ==
    LET closes(i) == {j \in (i + Len(ContentIdPattern))..Len(part) :
                        /\ part[j] = ">"
                        /\ \A k \in (i + Len(ContentIdPattern))..(j - 1) : part[k] # "CRLF"}
        hits == {i \in 1..Len(part) :
                    MatchesAt(part, ContentIdPattern, i) /\ closes(i) # {}}
    IN  IF hits = {} THEN Unmatched
        ELSE LET i == Min(hits)
             IN  SubSeq(part, i + Len(ContentIdPattern), Min(closes(i)) - 1)

\* /HTTP\/[\d.]+ (\d+)/.exec(text): the status of the first match, else 500
StatusOf(text) ==
    LET hits == {i \in 1..(Len(text) - 4) :
                    /\ text[i] = "HTTP" /\ text[i + 1] = "/"
                    /\ IsVersion(text[i + 2]) /\ text[i + 3] = " "
                    /\ IsDigits(text[i + 4])}
    IN  IF hits = {} THEN 500 ELSE DigitsValue(text[Min(hits) + 4])

\* lines 264-274: one header line -> <<key, value>>, <<>> for a line without colon
HeaderOfLine(line) ==
    LET colonIdx == IndexOf(line, <<":">>, 1)
    IN  IF colonIdx = 0 THEN <<>>
        ELSE <<Trim(SubSeq(line, 1, colonIdx - 1)), Trim(Substring(line, colonIdx + 1))>>

\* headers[key] after all lines were stored: the value of the last line with
\* that key, Unmatched when no line has it
HeaderValue(lines, key) ==
    LET hits == {k \in 1..Len(lines) :
                    HeaderOfLine(lines[k]) # <<>> /\ HeaderOfLine(lines[k])[1] = key}
    IN  IF hits = {} THEN Unmatched
        ELSE HeaderOfLine(lines[CHOOSE k \in hits : \A m \in hits : m <= k])[2]

HeaderKeys(lines) ==
    {HeaderOfLine(lines[k])[1] : k \in {m \in 1..Len(lines) : HeaderOfLine(lines[m]) # <<>>}}

\* JSON.parse of the trimmed body: the bodies of the model are one token
JsonTokens == {"{m1}", "{m2}", "{error}"}
JsonParses(text) == Len(text) = 1 /\ text[1] \in JsonTokens

\* lines 276-284
BodyOf(headerLines, bodySection) ==
    LET contentType == HeaderValue(headerLines, <<"Content-Type">>)
        isJson == contentType # Unmatched
                    /\ \E k \in 1..Len(contentType) : contentType[k] = "application/json"
    IN  IF isJson /\ JsonParses(Trim(bodySection))
        THEN [json |-> TRUE, text |-> Trim(bodySection)]
        ELSE [json |-> FALSE, text |-> Trim(bodySection)]

\* lines 293-312: the error detail of a response with status >= 400
ErrorOf(status, body) ==
    IF status >= 400 /\ body.json /\ body.text = <<"{error}">>
    THEN [code |-> 404, message |-> "Not Found"]
    ELSE [code |-> 0, message |-> None]

\* a fallback that counts the parts from 1
FallbackId_FromOne(i) == <<"batch", "-", ToString(i)>>

\* `batch-${i - 1}`, i the index of the part in the split response
FallbackId(i) == <<"batch", "-", ToString(i - 1)>>

\* lines 235-314: one part of the split response (i counts from 0 as in the
\* code); [skip |-> TRUE] where the code says continue
ParsePart(part, i) ==
    IF Trim(part) = <<>> THEN [skip |-> TRUE]
    ELSE
    LET contentIdMatch == ContentIdMatch(part)
        id == IF contentIdMatch # Unmatched THEN contentIdMatch
              ELSE FallbackId(i)
        httpResponseStart == IndexOf(part, <<"HTTP", "/">>, 1)
    IN  IF httpResponseStart = 0 THEN [skip |-> TRUE]
        ELSE
        LET status == StatusOf(Substring(part, httpResponseStart))
            headerBodySplit == IndexOf(part, <<"CRLF", "CRLF">>, httpResponseStart)
        IN  IF headerBodySplit = 0 THEN [skip |-> TRUE]
            ELSE
            LET headerSection == SubSeq(part, httpResponseStart, headerBodySplit - 1)
                bodySection == Substring(part, headerBodySplit + 2)
                headerLines == Tail(Split(headerSection, <<"CRLF">>))
                body == BodyOf(headerLines, bodySection)
            IN  [skip |-> FALSE,
                 response |-> [id |-> id, status |-> status,
                               headers |-> [key \in HeaderKeys(headerLines) |->
                                              HeaderValue(headerLines, key)],
                               body |-> body,
                               error |-> ErrorOf(status, body)]]

\* lines 234-315: for (let i = 1; i < parts.length - 1; i++)
RECURSIVE ParseParts(_, _)
ParseParts(parts, i) ==
    IF i > Len(parts) - 2 THEN <<>>
    ELSE LET r == ParsePart(parts[i + 1], i)
         IN  (IF r.skip THEN <<>> ELSE <<r.response>>) \o ParseParts(parts, i + 1)

\* lines 219-317: the responses read from the text of the answer
ParseResponse(text, b) ==
    LET responseBoundary == ResponseBoundary(text, b)
        parts == Split(text, <<"-", "-">> \o responseBoundary)
    IN  ParseParts(parts, 1)

\* ---- the server's side of the batch exchange ----

OuterContentType == <<"Content-Type", ":", " ", "application/http", "CRLF">>
OuterContentId(id) == ContentIdPattern \o id \o <<">", "CRLF">>
StatusLine(status) == <<"HTTP", "/", "1.1", " ", status, " ", "OK", "CRLF">>
JsonContentType ==
    <<"Content-Type", ":", " ", "application/json", ";", " ", "charset=UTF-8", "CRLF">>

\* the descriptions of the parts a response is made of
WellFormedParts ==
    {[kind |-> "ok", id |-> <<"x">>, status |-> "200", body |-> "{m1}"],
     [kind |-> "ok", id |-> <<"y">>, status |-> "404", body |-> "{error}"],
     [kind |-> "ok", id |-> <<"batch", "-", "1">>, status |-> "200", body |-> "{m2}"],
     [kind |-> "oknoid", id |-> <<>>, status |-> "200", body |-> "{m2}"]}
MalformedParts ==
    {[kind |-> k, id |-> <<"x">>, status |-> "200", body |-> "{m1}"] :
        k \in {"blank", "nohttp", "nosep"}}
PartChoices == WellFormedParts \cup MalformedParts

IsWellFormed(d) == d.kind \in {"ok", "oknoid"}

\* the text between two boundary lines
PartText(d) ==
    CASE d.kind = "ok" ->
           <<"CRLF">> \o OuterContentType \o OuterContentId(d.id) \o <<"CRLF">>
             \o StatusLine(d.status) \o JsonContentType \o <<"CRLF">>
             \o <<d.body, "CRLF">>
      [] d.kind = "oknoid" ->
           <<"CRLF">> \o OuterContentType \o <<"CRLF">>
             \o StatusLine(d.status) \o JsonContentType \o <<"CRLF">>
             \o <<d.body, "CRLF">>
      [] d.kind = "blank" -> <<"CRLF">>
      [] d.kind = "nohttp" ->
           <<"CRLF">> \o OuterContentType \o OuterContentId(d.id) \o <<"CRLF">>
             \o <<d.body, "CRLF">>
      [] d.kind = "nosep" ->
           <<"CRLF">> \o OuterContentType \o OuterContentId(d.id) \o <<"CRLF">>
             \o StatusLine(d.status)

RECURSIVE PartsText(_, _)
PartsText(b, ds) ==
    IF ds = <<>> THEN <<>>
    ELSE <<"-", "-">> \o b \o PartText(Head(ds)) \o PartsText(b, Tail(ds))

\* the multipart/mixed body the server sends with boundary b
ServerText(b, ds) == PartsText(b, ds) \o <<"-", "-">> \o b \o <<"-", "-", "CRLF">>

SeqsUpTo(S, n) == UNION {[1..k -> S] : k \in 0..n}

\* the request lists the model calls executeBatch with
RequestOf(k, explicit) ==
    [method |-> "GET", path |-> <<"/messages/", ToString(k)>>,
     id |-> IF explicit THEN RequestIds[k] ELSE None]
RequestChoices ==
    {[k \in 1..n |-> RequestOf(k, e)] : n \in 0..MaxReq, e \in BOOLEAN}
        \cup {[k \in 1..n |-> RequestOf(k, FALSE)] : n \in {MAX_BATCH, MAX_BATCH + 1}}

Ok(v) == [kind |-> "ok", value |-> v]
Err(m) == [kind |-> "err", error |-> m]

InitBatch ==
    /\ eb_pc = "called"
    /\ requests \in RequestChoices
    /\ eb_boundary \in RequestBoundaries
    /\ eb_posts = <<>>
    /\ eb_response = [kind |-> "none"]
    /\ eb_result = Pending
    /\ FmIdle
    /\ PpIdle
    /\ FiIdle
    /\ FnIdle
    /\ VwIdle

\* a guard that already refuses a full batch
BatchTooLarge_Inclusive(reqs) == Len(reqs) >= MAX_BATCH

\* if (requests.length > 100)
BatchTooLarge(reqs) == Len(reqs) > MAX_BATCH

\* lines 147-207: the guards on the size, then the POST is sent
ExecuteBatch ==
    /\ eb_pc = "called"
    /\ IF Len(requests) = 0
       THEN /\ eb_result' = Ok(<<>>)
            /\ eb_pc' = "done"
            /\ eb_posts' = eb_posts
       ELSE IF BatchTooLarge(requests)
       THEN /\ eb_result' = Err(<<"Batch requests are limited to 100 requests per batch">>)
            /\ eb_pc' = "done"
            /\ eb_posts' = eb_posts
       ELSE /\ eb_result' = eb_result
            /\ eb_pc' = "awaiting"
            /\ eb_posts' = Append(eb_posts,
                                  [url |-> GMAIL_BATCH_URL, method |-> "POST",
                                   contentType |-> <<"multipart/mixed; boundary=">> \o eb_boundary,
                                   body |-> RequestBody(requests, eb_boundary)])
    /\ UNCHANGED <<requests, eb_boundary, eb_response>>
    /\ UNCHANGED ebOthers

\* lines 209-211: fetch rejects
BatchFetchFailed ==
    /\ eb_pc = "awaiting"
    /\ eb_response' = [kind |-> "rejected"]
    /\ eb_result' = Err(<<"fetch failed">>)
    /\ eb_pc' = "done"
    /\ UNCHANGED <<requests, eb_boundary, eb_posts>>
    /\ UNCHANGED ebOthers

\* lines 213-217: the answer is not ok
BatchNotOk ==
    /\ eb_pc = "awaiting"
    /\ \E status \in {401, 429, 500} :
         /\ eb_response' = [kind |-> "status", status |-> status]
         /\ eb_result' = Err(<<"Batch request failed with status", ToString(status)>>)
    /\ eb_pc' = "done"
    /\ UNCHANGED <<requests, eb_boundary, eb_posts>>
    /\ UNCHANGED ebOthers

\* lines 219-317: the answer is ok and its text is parsed
BatchOk ==
    /\ eb_pc = "awaiting"
    /\ \E b \in ServerBoundaries, ds \in SeqsUpTo(PartChoices, MaxParts) :
         /\ eb_response' = [kind |-> "ok", boundary |-> b, parts |-> ds]
         /\ eb_result' = Ok(ParseResponse(ServerText(b, ds), eb_boundary))
    /\ eb_pc' = "done"
    /\ UNCHANGED <<requests, eb_boundary, eb_posts>>
    /\ UNCHANGED ebOthers

NextBatch ==
    \/ ExecuteBatch
    \/ BatchFetchFailed
    \/ BatchNotOk
    \/ BatchOk

SpecBatch == InitBatch /\ [][NextBatch]_vars

(***************************************************************************)
(* Properties of executeBatch                                              *)
(***************************************************************************)

RECURSIVE SelectWellFormed(_)
SelectWellFormed(ds) ==
    IF ds = <<>> THEN <<>>
    ELSE (IF IsWellFormed(Head(ds)) THEN <<Head(ds)>> ELSE <<>>)
            \o SelectWellFormed(Tail(ds))

\* what the server's well-formed parts say, in the order of the stream
SentResponses(ds) ==
    [k \in 1..Len(SelectWellFormed(ds)) |->
        [status |-> SelectWellFormed(ds)[k].status,
         body |-> <<SelectWellFormed(ds)[k].body>>]]

\* what executeBatch returned, in the same terms
ReturnedResponses ==
    [k \in 1..Len(eb_result.value) |->
        [status |-> ToString(eb_result.value[k].status),
         body |-> eb_result.value[k].body.text]]

Answered == eb_pc = "done" /\ eb_response.kind = "ok"

AllExplicit == \A k \in 1..Len(requests) : requests[k].id # None

\* the server answered every request once, each part well-formed and
\* carrying the Content-ID of its request, in some order
AnswersEachRequestOnce ==
    /\ Len(eb_response.parts) = Len(requests)
    /\ \A k \in 1..Len(eb_response.parts) : eb_response.parts[k].kind = "ok"
    /\ \A k \in 1..Len(requests) :
         \E m \in 1..Len(eb_response.parts) : eb_response.parts[m].id = <<requests[k].id>>

\* C2: for a batch of requests with explicit ids, whatever the order of the
\* parts in the response, the k-th response returned by executeBatch carries
\* the id of the k-th request.
C2_ResponsesInRequestOrder ==
    (Answered /\ AllExplicit /\ AnswersEachRequestOnce /\ eb_result.kind = "ok") =>
        \A k \in 1..Len(eb_result.value) :
            /\ k <= Len(requests)
            /\ eb_result.value[k].id = <<requests[k].id>>

\* C5: whatever well-formed, empty and malformed parts a multipart response
\* is made of, executeBatch succeeds and returns exactly the well-formed
\* responses.
C5_PartialResults ==
    Answered =>
        /\ eb_result.kind = "ok"
        /\ ReturnedResponses = SentResponses(eb_response.parts)

\* the same for the responses whose boundary starts with a letter, a digit
\* or an underscore
PartialResultsForWordBoundary ==
    (Answered /\ IsWord(eb_response.boundary[1])) =>
        /\ eb_result.kind = "ok"
        /\ ReturnedResponses = SentResponses(eb_response.parts)

\* C8: more than 100 requests give the batch-too-large error and zero
\* requests an empty success, both without any POST; 1 to 100 requests send
\* exactly one POST to the batch endpoint.
C8_SizeGuards ==
    eb_pc \in {"awaiting", "done"} =>
        /\ Len(requests) > 100 =>
             /\ eb_result = Err(<<"Batch requests are limited to 100 requests per batch">>)
             /\ eb_posts = <<>>
        /\ Len(requests) = 0 => eb_result = Ok(<<>>) /\ eb_posts = <<>>
        /\ Len(requests) \in 1..100 =>
             /\ Len(eb_posts) = 1
             /\ eb_posts[1].url = GMAIL_BATCH_URL
             /\ eb_posts[1].method = "POST"
             /\ Len(eb_posts[1].body.parts) = Len(requests)

\* a batch of exactly 100 requests was sent in one POST and answered
C8_Witness ==
    /\ eb_pc = "done"
    /\ Len(requests) = 100
    /\ Len(eb_posts) = 1
    /\ eb_result.kind = "ok"

\* C9: whatever boundary the server declares in the Content-Type of the
\* response (different from the request's, with or without characters other
\* than letters, digits and underscore), executeBatch recovers every
\* well-formed part of the response.
C9_ServerBoundaryHonoured ==
    (/\ Answered
     /\ eb_response.boundary # eb_boundary
     /\ \A k \in 1..Len(eb_response.parts) : IsWellFormed(eb_response.parts[k])) =>
        /\ eb_result.kind = "ok"
        /\ Len(eb_result.value) = Len(eb_response.parts)

NoneExplicit == requests # <<>> /\ \A k \in 1..Len(requests) : requests[k].id = None

\* the server answered the requests in their order, one part per request; a
\* part that carries a Content-ID carries that of its request
InRequestOrder ==
    /\ Len(eb_response.parts) = Len(requests)
    /\ \A k \in 1..Len(eb_response.parts) :
         eb_response.parts[k].kind = "ok" =>
            eb_response.parts[k].id = ContentIdOf(requests[k], k - 1)

\* the ids of the requests whose answers are well-formed, from the k-th on
\* what the well-formed answers say with the ids of their requests, from
\* the k-th request on
RECURSIVE AnswersFrom(_)
AnswersFrom(k) ==
    IF k > Len(requests) THEN <<>>
    ELSE (IF IsWellFormed(eb_response.parts[k])
          THEN <<[id |-> ContentIdOf(requests[k], k - 1),
                  status |-> eb_response.parts[k].status,
                  body |-> <<eb_response.parts[k].body>>]>>
          ELSE <<>>) \o AnswersFrom(k + 1)

\* what executeBatch returned, with the ids
ReturnedAnswers ==
    [k \in 1..Len(eb_result.value) |->
        [id |-> eb_result.value[k].id,
         status |-> ToString(eb_result.value[k].status),
         body |-> eb_result.value[k].body.text]]

\* a is b with some of its elements left out
RECURSIVE IsSubsequence(_, _)
IsSubsequence(a, b) ==
    IF a = <<>> THEN TRUE
    ELSE IF b = <<>> THEN FALSE
    ELSE IF Head(a) = Head(b) THEN IsSubsequence(Tail(a), Tail(b))
    ELSE IsSubsequence(a, Tail(b))

SynthesizedIdsMatchForWordBoundary ==
    (Answered /\ NoneExplicit /\ InRequestOrder /\ IsWord(eb_response.boundary[1])) =>
        /\ eb_result.kind = "ok"
        /\ ReturnedAnswers = AnswersFrom(1)

(***************************************************************************)
(* The decoding pipeline: getMimeType, getContentDetails, decodeData and   *)
(* processMessagePart.  Strings are sequences of tokens; an optional field *)
(* is Some(value) or Nothing.                                              *)
(***************************************************************************)

Some(v) == [some |-> TRUE, v |-> v]
Nothing == [some |-> FALSE, v |-> <<>>]

\* !x for an optional string: undefined or ""
Falsy(x) == ~x.some \/ x.v = <<>>

\* String.prototype.toLowerCase() on the tokens the model uses
LowerPairs ==
    {<<"Content-Type", "content-type">>, <<"CONTENT-TYPE", "content-type">>,
     <<"Content-Transfer-Encoding", "content-transfer-encoding">>,
     <<"Content-ID", "content-id">>, <<"UTF-8", "utf-8">>, <<"BASE64", "base64">>,
     <<"ISO-8859-1", "iso-8859-1">>, <<"7BIT", "7bit">>, <<"SRC", "src">>,
     <<"CONTENT-ID", "content-id">>, <<"Content-Id", "content-id">>,
     <<"CONTENT-TRANSFER-ENCODING", "content-transfer-encoding">>}
Lower(t) ==
    IF \E pr \in LowerPairs : pr[1] = t
    THEN (CHOOSE pr \in LowerPairs : pr[1] = t)[2]
    ELSE t
LowerAll(text) == [k \in 1..Len(text) |-> Lower(text[k])]

\* get-mime-type.ts: mimeTypeSchema
mimeTypeSchema ==
    {<<"text/plain">>, <<"text/html">>, <<"multipart/alternative">>,
     <<"multipart/related">>, <<"multipart/mixed">>, <<"image/png">>,
     <<"image/jpeg">>, <<"application/pdf">>,
     <<"application/vnd.openxmlformats-officedocument.spreadsheetml.sheet">>}

\* parse-headers.ts: the three enums of contentDetailsSchema
charsetSchema == {<<"utf-8">>, <<"iso-8859-1">>, <<"windows-1252">>, <<"us-ascii">>}
contentTypeSchema ==
    {<<"text/plain">>, <<"text/html">>, <<"multipart/alternative">>,
     <<"multipart/related">>, <<"image/png">>}
encodingSchema == {<<"base64">>, <<"quoted-printable">>, <<"8bit">>, <<"7bit">>}

\* getMimeType(part): parse(mimeTypeSchema, part.mimeType)
getMimeType(part) ==
    IF part.mimeType \in mimeTypeSchema
    THEN Ok(part.mimeType)
    ELSE Err(<<"ZodError: invalid mimeType">>)

\* /charset=([^;]+)/i.exec(value): the captured group, <<>> without a match
CharsetMatch(value) ==
    LET hits == {i \in 1..(Len(value) - 1) :
                    Lower(value[i]) = "charset=" /\ value[i + 1] # ";"}
    IN  IF hits = {} THEN <<>>
        ELSE LET i == Min(hits)
                 semis == {j \in (i + 1)..Len(value) : value[j] = ";"}
                 end == IF semis = {} THEN Len(value) ELSE Min(semis) - 1
             IN  SubSeq(value, i + 1, end)

\* String.prototype.replace(/["']/g, "")
RECURSIVE StripQuotes(_)
StripQuotes(text) ==
    IF text = <<>> THEN <<>>
    ELSE (IF Head(text) \in {"\"", "'"} THEN <<>> ELSE <<Head(text)>>)
            \o StripQuotes(Tail(text))

\* lines 46-58 of parse-headers.ts: the loop over the headers
RECURSIVE ScanHeaders(_, _)
ScanHeaders(headers, acc) ==
    IF headers = <<>> THEN acc
    ELSE
    LET header == Head(headers)
        next ==
          IF Lower(header.name) = "content-type"
          THEN [acc EXCEPT
                  !.mimeType = Trim(Split(header.value, <<";">>)[1]),
                  !.charset = IF CharsetMatch(header.value) # <<>>
                              THEN LowerAll(StripQuotes(Trim(CharsetMatch(header.value))))
                              ELSE acc.charset]
          ELSE IF Lower(header.name) = "content-transfer-encoding"
          THEN [acc EXCEPT !.encoding = LowerAll(Trim(header.value))]
          ELSE acc
    IN  ScanHeaders(Tail(headers), next)

\* getContentDetails(headers)
getContentDetails(headers) ==
    IF ~headers.some THEN Err(<<"No headers found">>)
    ELSE
    LET details == ScanHeaders(headers.v,
                               [charset |-> <<"utf-8">>, mimeType |-> <<>>,
                                encoding |-> <<"base64">>])
    IN  IF /\ details.charset \in charsetSchema
           /\ details.mimeType \in contentTypeSchema
           /\ details.encoding \in encodingSchema
        THEN Ok(details)
        ELSE Err(<<"ZodError: invalid content details">>)

\* ---- decode-data.ts ----

B64Alphabet ==
    <<"A", "B", "C", "D", "E", "F", "G", "H", "I", "J", "K", "L", "M", "N", "O", "P",
      "Q", "R", "S", "T", "U", "V", "W", "X", "Y", "Z", "a", "b", "c", "d", "e", "f",
      "g", "h", "i", "j", "k", "l", "m", "n", "o", "p", "q", "r", "s", "t", "u", "v",
      "w", "x", "y", "z", "0", "1", "2", "3", "4", "5", "6", "7", "8", "9", "+", "/">>

\* the 6 bits of a character; Buffer.from(s, "base64") reads the URL-safe
\* characters - and _ as + and /
B64Value(c) ==
    IF c = "-" THEN 62
    ELSE IF c = "_" THEN 63
    ELSE (CHOOSE i \in 1..64 : B64Alphabet[i] = c) - 1

IsB64Char(c) == c \in {"-", "_"} \/ \E i \in 1..64 : B64Alphabet[i] = c

\* the characters before the first "=" that carry bits
RECURSIVE B64Payload(_)
B64Payload(s) ==
    IF s = <<>> \/ Head(s) = "=" THEN <<>>
    ELSE (IF IsB64Char(Head(s)) THEN <<Head(s)>> ELSE <<>>) \o B64Payload(Tail(s))

\* the bytes of groups of four characters; two or three left-over characters
\* give one or two bytes
RECURSIVE B64Bytes(_)
B64Bytes(cs) ==
    LET v(k) == B64Value(cs[k])
    IN  IF Len(cs) < 2 THEN <<>>
        ELSE IF Len(cs) = 2 THEN <<v(1) * 4 + v(2) \div 16>>
        ELSE IF Len(cs) = 3
        THEN <<v(1) * 4 + v(2) \div 16, (v(2) % 16) * 16 + v(3) \div 4>>
        ELSE <<v(1) * 4 + v(2) \div 16, (v(2) % 16) * 16 + v(3) \div 4,
               (v(3) % 4) * 64 + v(4)>> \o B64Bytes(SubSeq(cs, 5, Len(cs)))

\* Buffer.from(data, "base64").toString(): the text is given by the decimal
\* values of its bytes (the data of the model decodes to ASCII)
BufferFromBase64(data) ==
    LET bytes == B64Bytes(B64Payload(data))
    IN  [k \in 1..Len(bytes) |-> ToString(bytes[k])]

\* decodeBase64(data)
decodeBase64(data) == Ok(BufferFromBase64(data))

\* decodeBase64Url(base64Url)
decodeBase64Url(base64Url) ==
    LET base64 == [k \in 1..Len(base64Url) |->
                      IF base64Url[k] = "-" THEN "+"
                      ELSE IF base64Url[k] = "_" THEN "/" ELSE base64Url[k]]
        padding == Len(base64) % 4
        paddedBase64 == IF padding # 0
                        THEN base64 \o [k \in 1..(4 - padding) |-> "="]
                        ELSE base64
    IN  Ok(BufferFromBase64(paddedBase64))

\* decodeData(data, encoding)
decodeData(data, encoding) ==
    CASE encoding = <<"base64">> -> decodeBase64(data)
      [] encoding \in {<<"quoted-printable">>, <<"8bit">>, <<"7bit">>} -> decodeBase64Url(data)
      [] OTHER -> Err(<<"Unsupported encoding">>)

\* ---- process-message.ts ----

\* headers?.find((header) => header.name === name)?.value ?? ""
FindHeaderValue(headers, name) ==
    IF ~headers.some THEN <<>>
    ELSE LET hits == {k \in 1..Len(headers.v) : headers.v[k].name = name}
         IN  IF hits = {} THEN <<>> ELSE headers.v[Min(hits)].value

\* String.prototype.replace(/[<>]/g, "")
RECURSIVE StripAngles(_)
StripAngles(text) ==
    IF text = <<>> THEN <<>>
    ELSE (IF Head(text) \in {"<", ">"} THEN <<>> ELSE <<Head(text)>>)
            \o StripAngles(Tail(text))

\* the result of a call together with the parts it visited (their paths from
\* the root), in the order of the calls of processMessagePart
Visit(res, visited) == [res |-> res, visited |-> visited]

\* processTextPlain / processTextHtml (type is the dispatched type)
processText(part, type) ==
    IF ~part.partId.some THEN Err(<<"No partId found in", type>>)
    ELSE IF part.mimeType # <<type>> THEN Err(<<"Mime type is not", type>>)
    ELSE
    LET details == getContentDetails(part.headers)
    IN  IF details.kind = "err" THEN details
        ELSE IF ~part.body.some \/ Falsy(part.body.v.data)
        THEN Err(<<"No body found in", type>>)
        ELSE LET decoded == decodeData(part.body.v.data.v, details.value.encoding)
             IN  IF decoded.kind = "err" THEN decoded
                 ELSE Ok([id |-> part.partId.v, contentType |-> <<type>>,
                          data |-> decoded.value])

processTextPlain(part) == processText(part, "text/plain")

processTextHtml(part) == processText(part, "text/html")

\* processImage(payload)
processImage(part) ==
    IF Falsy(part.partId) THEN Err(<<"No partId found in image/png">>)
    ELSE IF ~part.body.some \/ Falsy(part.body.v.attachmentId)
    THEN Err(<<"No attachmentId found in image/png">>)
    ELSE Ok([id |-> StripAngles(FindHeaderValue(part.headers, "Content-ID")),
             contentType |-> <<"image/png">>,
             data |-> part.body.v.attachmentId.v])

\* processAttachment(payload)
processAttachment(part) ==
    IF Falsy(part.partId) THEN Err(<<"No partId found in application/pdf">>)
    ELSE IF ~part.body.some THEN Err(<<"No body found in application/pdf">>)
    ELSE IF Falsy(part.body.v.attachmentId)
    THEN Err(<<"No attachmentId found in application/pdf">>)
    ELSE Ok([id |-> part.partId.v, contentType |-> <<"application/pdf">>,
             data |-> part.body.v.attachmentId.v])

\* one fragment, or the error, as processMessagePart returns it for a leaf
Single(r) == IF r.kind = "err" THEN r ELSE Ok(<<r.value>>)

RECURSIVE ProcessAt(_, _)
RECURSIVE ProcessParts(_, _, _, _)

\* a loop that leaves out the children that fail
ProcessParts_SkipFailed(parts, k, path, needPartId) ==
    IF k > Len(parts) THEN Visit(Ok(<<>>), <<>>)
    ELSE
    LET this == ProcessAt(parts[k], Append(path, k))
        rest == ProcessParts(parts, k + 1, path, needPartId)
    IN  IF this.res.kind = "err" THEN Visit(rest.res, this.visited \o rest.visited)
        ELSE IF rest.res.kind = "err" THEN Visit(rest.res, this.visited \o rest.visited)
        ELSE Visit(Ok(this.res.value \o rest.res.value), this.visited \o rest.visited)

\* for (const part of parts) { ... processMessagePart(part) ... push(...data) }
\* from the k-th child on; needPartId is the check of multipart/alternative
ProcessParts(parts, k, path, needPartId) ==
    IF k > Len(parts) THEN Visit(Ok(<<>>), <<>>)
    ELSE IF needPartId /\ Falsy(parts[k].partId)
    THEN Visit(Err(<<"No partId found in multipart/alternative">>), <<>>)
    ELSE
    LET this == ProcessAt(parts[k], Append(path, k))
    IN  IF this.res.kind = "err" THEN this
        ELSE LET rest == ProcessParts(parts, k + 1, path, needPartId)
             IN  IF rest.res.kind = "err"
                 THEN Visit(rest.res, this.visited \o rest.visited)
                 ELSE Visit(Ok(this.res.value \o rest.res.value),
                            this.visited \o rest.visited)

\* a reducer that keeps the last (preferred) alternative only
processMultipartAlternative_Preferred(part, path) ==
    IF ~part.parts.some THEN Visit(Err(<<"No parts found in multipart/alternative">>), <<>>)
    ELSE IF part.parts.v = <<>> THEN Visit(Ok(<<>>), <<>>)
    ELSE ProcessParts(part.parts.v, Len(part.parts.v), path, TRUE)

\* processMultipartAlternative(payload)
processMultipartAlternative(part, path) ==
    IF ~part.parts.some THEN Visit(Err(<<"No parts found in multipart/alternative">>), <<>>)
    ELSE ProcessParts(part.parts.v, 1, path, TRUE)

\* processMultipartRelated(payload)
processMultipartRelated(part, path) ==
    IF part.mimeType # <<"multipart/related">>
    THEN Visit(Err(<<"Mime type is not multipart/related">>), <<>>)
    ELSE
    LET contentType == FindHeaderValue(part.headers, "Content-Type")
        mime == Trim(Split(contentType, <<";">>)[1])
    IN  IF mime # <<"multipart/related">>
        THEN Visit(Err(<<"Mime type is not multipart/related in Content-Type header">>), <<>>)
        ELSE IF ~part.parts.some
        THEN Visit(Err(<<"No parts found in multipart/related">>), <<>>)
        ELSE ProcessParts(part.parts.v, 1, path, FALSE)

\* processMultipartMixed(payload)
processMultipartMixed(part, path) ==
    IF ~part.parts.some THEN Visit(Err(<<"No parts found in multipart/mixed">>), <<>>)
    ELSE ProcessParts(part.parts.v, 1, path, FALSE)

\* processMessagePart(payload), for the part at path
ProcessAt(part, path) ==
    LET mimeType == getMimeType(part)
        leaf(r) == Visit(Single(r), <<path>>)
        below(v) == Visit(v.res, <<path>> \o v.visited)
    IN  IF mimeType.kind = "err" THEN Visit(mimeType, <<path>>)
        ELSE CASE mimeType.value = <<"multipart/alternative">> ->
                    below(processMultipartAlternative(part, path))
               [] mimeType.value = <<"multipart/related">> ->
                    below(processMultipartRelated(part, path))
               [] mimeType.value = <<"multipart/mixed">> ->
                    below(processMultipartMixed(part, path))
               [] mimeType.value = <<"text/plain">> -> leaf(processTextPlain(part))
               [] mimeType.value = <<"text/html">> -> leaf(processTextHtml(part))
               [] mimeType.value \in {<<"image/png">>, <<"image/jpeg">>} ->
                    leaf(processImage(part))
               [] mimeType.value \in
                    {<<"application/pdf">>,
                     <<"application/vnd.openxmlformats-officedocument.spreadsheetml.sheet">>} ->
                    leaf(processAttachment(part))
               [] OTHER -> Visit(Err(<<"Unsupported mime type">>), <<path>>)

processMessagePart(part) == ProcessAt(part, <<>>)

\* ---- the messages processMessagePart is applied to ----

\* largest number of parts of the root, and of a multipart part below it
MaxChildren == 2
MaxInnerChildren == 1

MultipartTypes == {"multipart/alternative", "multipart/related", "multipart/mixed"}
LeafKinds == {"plain", "html", "png", "pdf", "plainNoBody", "calendar", "plainAsHtml"}
InnerLeafKinds == {"png", "plainNoBody"}
\* multipart parts without a parts field
NoPartsKinds == {"alternativeNoParts", "relatedNoParts", "mixedNoParts"}
\* parts that only occur as the whole payload
RootOnlyKinds == {"pngNoPartId"} \cup NoPartsKinds

\* the multipart type of a part without a parts field
MultipartOf(kind) ==
    CASE kind = "alternativeNoParts" -> "multipart/alternative"
      [] kind = "relatedNoParts" -> "multipart/related"
      [] kind = "mixedNoParts" -> "multipart/mixed"

\* multipart/related parts whose Content-Type header is missing, states
\* another type, or is spelled in lower case
RelatedVariants == {"relatedNoHeader", "relatedOtherHeader", "relatedLowerHeader"}

LeafShapes(kinds) == {[type |-> k, kids |-> <<>>] : k \in kinds}
InnerShapes ==
    {[type |-> t, kids |-> ks] :
        t \in MultipartTypes, ks \in SeqsUpTo(LeafShapes(InnerLeafKinds), MaxInnerChildren)}
\* a multipart/mixed message with an image/jpeg part and a spreadsheet part
JpegAndSheet ==
    [type |-> "multipart/mixed",
     kids |-> <<[type |-> "jpeg", kids |-> <<>>], [type |-> "xlsx", kids |-> <<>>]>>]

RootShapes ==
    LeafShapes(LeafKinds) \cup LeafShapes(RootOnlyKinds) \cup {JpegAndSheet} \cup
    {[type |-> t, kids |-> ks] :
        t \in RelatedVariants,
        ks \in SeqsUpTo(LeafShapes(InnerLeafKinds), MaxInnerChildren)} \cup
    {[type |-> t, kids |-> ks] :
        t \in MultipartTypes,
        ks \in SeqsUpTo(LeafShapes(LeafKinds) \cup InnerShapes, MaxChildren)}

\* Gmail's partId of the part at a path: "" for the root, "0", "1", "0.1", ...
RECURSIVE PartIdAt(_)
PartIdAt(path) ==
    IF path = <<>> THEN <<>>
    ELSE IF Len(path) = 1 THEN <<ToString(path[1] - 1)>>
    ELSE PartIdAt(SubSeq(path, 1, Len(path) - 1)) \o <<".", ToString(path[Len(path)] - 1)>>

\* base64url bodies: "Hi", "Hello", "???"
Bodies ==
    << <<"S", "G", "k">>,
       <<"S", "G", "V", "s", "b", "G", "8", "=">>,
       <<"P", "z", "8", "_">> >>
DataAt(path) == Bodies[(IF path = <<>> THEN 0 ELSE path[Len(path)] % 3) + 1]

Header(name, value) == [name |-> name, value |-> value]
TextBody(path) == Some([data |-> Some(DataAt(path)), attachmentId |-> Nothing])
AttachmentBody(path) ==
    Some([data |-> Nothing, attachmentId |-> Some(<<"ATT">> \o PartIdAt(path))])
EmptyBody == Some([data |-> Nothing, attachmentId |-> Nothing])

RECURSIVE Build(_, _)
Build(shape, path) ==
    LET part(mime, headers, body, parts) ==
            [partId |-> IF shape.type = "pngNoPartId" THEN Nothing
                        ELSE Some(PartIdAt(path)),
             mimeType |-> <<mime>>,
             headers |-> Some(headers), body |-> body, parts |-> parts]
    IN  CASE shape.type \in MultipartTypes ->
               part(shape.type,
                    <<Header("Content-Type",
                             <<shape.type, ";", " ", "boundary=", "\"", "b0", "\"">>)>>,
                    EmptyBody,
                    Some([k \in 1..Len(shape.kids) |->
                            Build(shape.kids[k], Append(path, k))]))
          [] shape.type \in RelatedVariants ->
               part("multipart/related",
                    CASE shape.type = "relatedNoHeader" -> <<>>
                      [] shape.type = "relatedOtherHeader" ->
                           <<Header("Content-Type",
                                    <<"multipart/mixed", ";", " ", "boundary=", "\"", "b0", "\"">>)>>
                      [] shape.type = "relatedLowerHeader" ->
                           <<Header("content-type",
                                    <<"multipart/related", ";", " ", "boundary=", "\"", "b0", "\"">>)>>,
                    EmptyBody,
                    Some([k \in 1..Len(shape.kids) |->
                            Build(shape.kids[k], Append(path, k))]))
          [] shape.type \in NoPartsKinds ->
               part(MultipartOf(shape.type),
                    <<Header("Content-Type",
                             <<MultipartOf(shape.type), ";", " ", "boundary=", "\"", "b0", "\"">>)>>,
                    EmptyBody, Nothing)
          [] shape.type = "plain" ->
               part("text/plain",
                    <<Header("Content-Type",
                             <<"text/plain", ";", " ", "charset=", "UTF-8">>),
                      Header("Content-Transfer-Encoding", <<"base64">>)>>,
                    TextBody(path), Nothing)
          [] shape.type = "html" ->
               part("text/html",
                    <<Header("Content-Type",
                             <<"text/html", ";", " ", "charset=", "\"", "utf-8", "\"">>),
                      Header("Content-Transfer-Encoding", <<"quoted-printable">>)>>,
                    TextBody(path), Nothing)
          [] shape.type = "png" ->
               part("image/png",
                    <<Header("Content-Type", <<"image/png", ";", " ", "name=", "a.png">>),
                      Header("Content-ID", <<"<", "cid">> \o PartIdAt(path) \o <<"@mail", ">">>)>>,
                    AttachmentBody(path), Nothing)
          [] shape.type = "pngNoPartId" ->
               part("image/png",
                    <<Header("Content-ID", <<"<", "abc123", "@mail", ">">>)>>,
                    Some([data |-> Nothing, attachmentId |-> Some(<<"ATT1">>)]),
                    Nothing)
          [] shape.type = "jpeg" ->
               part("image/jpeg",
                    <<Header("Content-Type", <<"image/jpeg", ";", " ", "name=", "a.jpg">>),
                      Header("Content-ID", <<"<", "cid">> \o PartIdAt(path) \o <<"@mail", ">">>)>>,
                    AttachmentBody(path), Nothing)
          [] shape.type = "xlsx" ->
               part("application/vnd.openxmlformats-officedocument.spreadsheetml.sheet",
                    <<Header("Content-Type",
                             <<"application/vnd.openxmlformats-officedocument.spreadsheetml.sheet">>)>>,
                    AttachmentBody(path), Nothing)
          [] shape.type = "pdf" ->
               part("application/pdf",
                    <<Header("Content-Type", <<"application/pdf">>)>>,
                    AttachmentBody(path), Nothing)
          [] shape.type = "plainNoBody" ->
               part("text/plain",
                    <<Header("Content-Type",
                             <<"text/plain", ";", " ", "charset=", "UTF-8">>)>>,
                    EmptyBody, Nothing)
          [] shape.type = "calendar" ->
               part("text/calendar",
                    <<Header("Content-Type", <<"text/calendar">>)>>,
                    TextBody(path), Nothing)
          [] shape.type = "plainAsHtml" ->
               part("text/plain",
                    <<Header("Content-Type",
                             <<"text/html", ";", " ", "charset=", "UTF-8">>)>>,
                    TextBody(path), Nothing)

InitPart ==
    /\ PpIdle
    /\ FmIdle
    /\ EbIdle
    /\ FiIdle
    /\ FnIdle
    /\ VwIdle

\* a loop that consumes the parts list it walks (parts.shift())
TreeAfter_PartsConsumed(part) ==
    [part EXCEPT !.parts = IF part.parts.some THEN Some(<<>>) ELSE part.parts]

\* the tree the caller holds after the call: processMessagePart and its
\* handlers only destructure and read payload, and push to arrays they made
TreeAfter(part) == part

\* the caller holds a message of the bounded family and calls
\* processMessagePart on it
CallProcessMessagePart ==
    /\ pp_pc = "idle"
    /\ \E shape \in RootShapes : payload' = Build(shape, <<>>)
    /\ pp_pc' = "called"
    /\ UNCHANGED pp_result
    /\ UNCHANGED ppOthers

\* the call runs and returns
ProcessMessagePart ==
    /\ pp_pc = "called"
    /\ pp_result' = processMessagePart(payload)
    /\ payload' = TreeAfter(payload)
    /\ pp_pc' = "done"
    /\ UNCHANGED ppOthers

NextPart == CallProcessMessagePart \/ ProcessMessagePart

SpecPart == InitPart /\ [][NextPart]_vars

\* ---- properties of processMessagePart ----

IsMultipart(part) == part.mimeType[1] \in MultipartTypes
IsText(part) == part.mimeType[1] \in {"text/plain", "text/html"}
IsImage(part) == part.mimeType[1] \in {"image/png", "image/jpeg"}
IsDocument(part) ==
    part.mimeType[1] \in
        {"application/pdf",
         "application/vnd.openxmlformats-officedocument.spreadsheetml.sheet"}
Children(part) == IF part.parts.some THEN part.parts.v ELSE <<>>

\* the part at a path below a part
RECURSIVE NodeAt(_, _)
NodeAt(part, path) ==
    IF path = <<>> THEN part ELSE NodeAt(Children(part)[Head(path)], Tail(path))

\* the paths of the parts of a tree
RECURSIVE PathsOf(_)
PathsOf(part) ==
    {<<>>} \cup
    UNION {{<<k>> \o p : p \in PathsOf(Children(part)[k])} :
             k \in 1..Len(Children(part))}

\* the non-multipart leaves of a tree, depth first and left to right
RECURSIVE LeavesOf(_)
RECURSIVE LeavesFrom(_, _)
LeavesFrom(parts, k) ==
    IF k > Len(parts) THEN <<>> ELSE LeavesOf(parts[k]) \o LeavesFrom(parts, k + 1)
LeavesOf(part) ==
    IF IsMultipart(part) THEN LeavesFrom(Children(part), 1) ELSE <<part>>

\* a tree of supported types whose parts carry what their type requires
RECURSIVE ValidTree(_)
ValidTree(part) ==
    CASE IsMultipart(part) ->
           /\ part.parts.some
           /\ \A k \in 1..Len(part.parts.v) :
                /\ ~Falsy(part.parts.v[k].partId)
                /\ ValidTree(part.parts.v[k])
           /\ part.mimeType = <<"multipart/related">> =>
                Trim(Split(FindHeaderValue(part.headers, "Content-Type"), <<";">>)[1])
                    = <<"multipart/related">>
      [] IsText(part) ->
           /\ part.partId.some
           /\ getContentDetails(part.headers).kind = "ok"
           /\ part.body.some
           /\ ~Falsy(part.body.v.data)
      [] IsImage(part) \/ IsDocument(part) ->
           /\ ~Falsy(part.partId)
           /\ part.body.some
           /\ ~Falsy(part.body.v.attachmentId)
      [] OTHER -> FALSE

\* the id a fragment of a leaf carries
LeafId(part) ==
    IF IsImage(part) THEN StripAngles(FindHeaderValue(part.headers, "Content-ID"))
    ELSE part.partId.v

PartDone == pp_pc = "done"
Fragments == pp_result.res.value

\* C3: for every valid tree of supported types processMessagePart succeeds
\* and returns exactly one fragment per non-multipart leaf, in depth-first
\* left-to-right order; nothing is deduplicated, preferred or reordered
C3_OneFragmentPerLeafInOrder ==
    (PartDone /\ ValidTree(payload)) =>
        /\ pp_result.res.kind = "ok"
        /\ Len(Fragments) = Len(LeavesOf(payload))
        /\ \A k \in 1..Len(Fragments) :
             Fragments[k].id = LeafId(LeavesOf(payload)[k])

\* a multipart/alternative with children [text/plain, text/html] has yielded
\* its two fragments
C3_Witness ==
    /\ PartDone
    /\ payload.mimeType = <<"multipart/alternative">>
    /\ Len(Children(payload)) = 2
    /\ Children(payload)[1].mimeType = <<"text/plain">>
    /\ Children(payload)[2].mimeType = <<"text/html">>
    /\ ValidTree(payload)
    /\ pp_result.res.kind = "ok"
    /\ Len(Fragments) = 2
    /\ Fragments[1].contentType = <<"text/plain">>
    /\ Fragments[2].contentType = <<"text/html">>

\* the visited parts below the root whose own processing fails
Standalone(path) == ProcessAt(NodeAt(payload, path), path).res
Visited == pp_result.visited
FailedVisits ==
    {k \in 1..Len(Visited) : Visited[k] # <<>> /\ Standalone(Visited[k]).kind = "err"}

\* path p lies in the subtree of a later sibling of the part at path q
AfterSibling(p, q) ==
    /\ Len(p) >= Len(q)
    /\ SubSeq(p, 1, Len(q) - 1) = SubSeq(q, 1, Len(q) - 1)
    /\ p[Len(q)] > q[Len(q)]

\* C4: part-tree processing is all-or-nothing: when the processing of a
\* descendant of a multipart part fails, the root returns that error and no
\* fragments, and no sibling after the failing part is processed
C4_AllOrNothing ==
    (PartDone /\ IsMultipart(payload)) =>
        /\ (\E p \in PathsOf(payload) \ {<<>>} : Standalone(p).kind = "err")
             => pp_result.res.kind = "err"
        /\ FailedVisits # {} =>
             /\ pp_result.res.kind = "err"
             /\ DOMAIN pp_result.res = {"kind", "error"}
             /\ \A k \in FailedVisits :
                  /\ pp_result.res = Standalone(Visited[k])
                  /\ \A j \in 1..Len(Visited) : ~AfterSibling(Visited[j], Visited[k])

\* a child has failed while a sibling after it was still to be processed
C4_Witness ==
    /\ PartDone
    /\ IsMultipart(payload)
    /\ Len(Children(payload)) = 2
    /\ Standalone(<<1>>).kind = "err"
    /\ ProcessAt(Children(payload)[2], <<2>>).res.kind = "ok"
    /\ pp_result.res = Standalone(<<1>>)
    /\ Visited = <<<<>>, <<1>>>>

\* the MIME type the Content-Type header of a part states
HeaderMimeType(part) ==
    ScanHeaders(part.headers.v,
                [charset |-> <<"utf-8">>, mimeType |-> <<>>,
                 encoding |-> <<"base64">>]).mimeType

\* C10: a part dispatched as text/plain or text/html whose Content-Type
\* header states another MIME type fails, and yields no fragment
C10_HeaderMismatchRejected ==
    (PartDone /\ IsText(payload) /\ payload.headers.some
        /\ HeaderMimeType(payload) # payload.mimeType)
        => pp_result.res.kind = "err"

\* C11: an image part with an attachmentId and a Content-ID header but no
\* partId yields exactly one fragment, whose id is the Content-ID without
\* its angle brackets and whose data is the attachmentId
C11_ImageNeedsOnlyAttachmentId ==
    (/\ PartDone
     /\ IsImage(payload)
     /\ ~payload.partId.some
     /\ payload.body.some
     /\ ~Falsy(payload.body.v.attachmentId)
     /\ FindHeaderValue(payload.headers, "Content-ID") # <<>>)
        => /\ pp_result.res.kind = "ok"
           /\ Len(Fragments) = 1
           /\ Fragments[1].id =
                 StripAngles(FindHeaderValue(payload.headers, "Content-ID"))
           /\ Fragments[1].data = payload.body.v.attachmentId.v

\* C22: processMessagePart applied to a multipart part whose parts list is
\* absent or empty fails; it never returns a successful empty fragment list
\* for a multipart container
C22_EmptyMultipartRejected ==
    (PartDone /\ IsMultipart(payload) /\ Children(payload) = <<>>)
        => pp_result.res.kind = "err"

\* the same for an absent parts list alone
AbsentPartsRejected ==
    (PartDone /\ IsMultipart(payload) /\ ~payload.parts.some)
        => pp_result.res.kind = "err"

C28_ContentTypeOfPart ==
    (PartDone /\ ValidTree(payload)) =>
        /\ pp_result.res.kind = "ok"
        /\ Len(Fragments) = Len(LeavesOf(payload))
        /\ \A k \in 1..Len(Fragments) :
             Fragments[k].contentType = LeavesOf(payload)[k].mimeType

\* the same for trees without image/jpeg and spreadsheet parts
ContentTypeOfOtherParts ==
    (/\ PartDone
     /\ ValidTree(payload)
     /\ \A k \in 1..Len(LeavesOf(payload)) :
           LeavesOf(payload)[k].mimeType[1] \in
              {"text/plain", "text/html", "image/png", "application/pdf"}) =>
        /\ pp_result.res.kind = "ok"
        /\ Len(Fragments) = Len(LeavesOf(payload))
        /\ \A k \in 1..Len(Fragments) :
             Fragments[k].contentType = LeavesOf(payload)[k].mimeType

\* the name of the error of a multipart/related part whose header disagrees
ContentTypeMismatch == Err(<<"Mime type is not multipart/related in Content-Type header">>)

\* the part is a multipart/related part with a parts list
IsRelated(part) == part.mimeType = <<"multipart/related">> /\ part.parts.some

\* the children processed and concatenated in order
ChildrenProcessed == ProcessParts(payload.parts.v, 1, <<>>, FALSE)

\* C23: a multipart/related part is processed (children processed and
\* concatenated in order) if and only if the media type stated by its own
\* Content-Type header is multipart/related; when the header is missing or
\* states another type, processing fails with the content-type-mismatch
\* error before any child is processed
C23_RelatedIffHeaderStatesIt ==
    (PartDone /\ IsRelated(payload)) =>
        IF HeaderMimeType(payload) = <<"multipart/related">>
        THEN /\ pp_result.res = ChildrenProcessed.res
             /\ pp_result.visited = <<<<>>>> \o ChildrenProcessed.visited
        ELSE /\ pp_result.res = ContentTypeMismatch
             /\ pp_result.visited = <<<<>>>>

\* the same for parts whose header, if any, is spelled Content-Type
RelatedIffExactHeaderStatesIt ==
    (/\ PartDone
     /\ IsRelated(payload)
     /\ \A k \in 1..Len(payload.headers.v) :
           Lower(payload.headers.v[k].name) = "content-type"
              => payload.headers.v[k].name = "Content-Type")
    =>  IF HeaderMimeType(payload) = <<"multipart/related">>
        THEN /\ pp_result.res = ChildrenProcessed.res
             /\ pp_result.visited = <<<<>>>> \o ChildrenProcessed.visited
        ELSE /\ pp_result.res = ContentTypeMismatch
             /\ pp_result.visited = <<<<>>>>

\* the spellings of the header names the pipeline looks up
Spellings ==
    {<<"Content-Type", "content-type", "CONTENT-TYPE">>,
     <<"Content-ID", "content-id", "Content-Id">>,
     <<"Content-Transfer-Encoding", "content-transfer-encoding",
       "CONTENT-TRANSFER-ENCODING">>}
SpellingStyles == 1..3

\* a header name in another spelling of the same name
Respelled(name, style) ==
    IF \E row \in Spellings : \E i \in SpellingStyles : row[i] = name
    THEN (CHOOSE row \in Spellings : \E i \in SpellingStyles : row[i] = name)[style]
    ELSE name

\* a part tree with every header name in the given spelling
RECURSIVE RespelledPart(_, _)
RespelledPart(part, style) ==
    [part EXCEPT
        !.headers = IF part.headers.some
                    THEN Some([k \in 1..Len(part.headers.v) |->
                                 [part.headers.v[k] EXCEPT
                                    !.name = Respelled(part.headers.v[k].name, style)]])
                    ELSE part.headers,
        !.parts = IF part.parts.some
                  THEN Some([k \in 1..Len(part.parts.v) |->
                               RespelledPart(part.parts.v[k], style)])
                  ELSE part.parts]

\* C24: header names are matched case-insensitively: replacing the header
\* names of a part tree by another spelling of the same names does not
\* change the outcome of processMessagePart
C24_HeaderNamesCaseInsensitive ==
    PartDone =>
        \A style \in SpellingStyles :
            processMessagePart(RespelledPart(payload, style)).res = pp_result.res

\* the same for text parts, whose headers only getContentDetails reads
TextHeaderNamesCaseInsensitive ==
    (PartDone /\ IsText(payload)) =>
        \A style \in SpellingStyles :
            processMessagePart(RespelledPart(payload, style)).res = pp_result.res

(***************************************************************************)
(* getContentDetails called on header lists (parse-headers.ts)             *)
(***************************************************************************)

\* longest header list
MaxHeaders == 3

HeaderChoices ==
    {Header("Content-Type", <<"text/plain">>),
     Header("Content-Type", <<"text/html", ";", " ", "charset=", "ISO-8859-1">>),
     Header("content-type", <<"text/plain", ";", " ", "charset=", "\"", "UTF-8", "\"">>),
     Header("Content-Transfer-Encoding", <<"quoted-printable">>),
     Header("CONTENT-TRANSFER-ENCODING", <<" ", "7BIT">>),
     Header("Subject", <<"hi">>)}

\* the headers argument: undefined, or a list
HeaderLists == {Nothing} \cup {Some(h) : h \in SeqsUpTo(HeaderChoices, MaxHeaders)}

InitHeaders ==
    /\ FnIdle
    /\ FmIdle
    /\ EbIdle
    /\ PpIdle
    /\ FiIdle
    /\ VwIdle

\* one call of getContentDetails
GetContentDetails ==
    /\ fn_pc = "idle"
    /\ \E h \in HeaderLists :
         /\ fn_args' = [name |-> "getContentDetails", headers |-> h]
         /\ fn_result' = getContentDetails(h)
    /\ fn_pc' = "done"
    /\ UNCHANGED fnOthers

NextHeaders == GetContentDetails

SpecHeaders == InitHeaders /\ [][NextHeaders]_vars

\* ---- properties of getContentDetails ----

HeadersDone == fn_pc = "done" /\ fn_args.name = "getContentDetails"
IsContentType(h) == Lower(h.name) = "content-type"
IsTransferEncoding(h) == Lower(h.name) = "content-transfer-encoding"
\* the last header of a list that satisfies Is
LastOf(hs, Is(_)) == hs[CHOOSE k \in 1..Len(hs) :
                          Is(hs[k]) /\ \A j \in (k + 1)..Len(hs) : ~Is(hs[j])]
Has(hs, Is(_)) == \E k \in 1..Len(hs) : Is(hs[k])
\* the charset a Content-Type value states, the default when it states none
StatedCharset(value) ==
    IF CharsetMatch(value) = <<>> THEN <<"utf-8">>
    ELSE LowerAll(StripQuotes(Trim(CharsetMatch(value))))

\* C12: getContentDetails fails with the missing-headers error only when the
\* header list is undefined; for an empty list, and for a list without
\* Content-Type and Content-Transfer-Encoding, it succeeds with the defaults
\* charset utf-8 and encoding base64
C12_DefaultsForEmptyHeaders ==
    HeadersDone =>
        /\ fn_result = Err(<<"No headers found">>) <=> ~fn_args.headers.some
        /\ (/\ fn_args.headers.some
            /\ ~Has(fn_args.headers.v, IsContentType)
            /\ ~Has(fn_args.headers.v, IsTransferEncoding))
             => /\ fn_result.kind = "ok"
                /\ fn_result.value.charset = <<"utf-8">>
                /\ fn_result.value.encoding = <<"base64">>

\* C13: with several Content-Type (or Content-Transfer-Encoding) headers the
\* details are those of the last one: its mimeType, its charset (the default
\* when it states none), and the encoding of the last Content-Transfer-Encoding
C13_LastHeaderWins ==
    (HeadersDone /\ fn_args.headers.some /\ fn_result.kind = "ok") =>
        LET hs == fn_args.headers.v
        IN  /\ Has(hs, IsContentType) =>
                 /\ fn_result.value.mimeType =
                        Trim(Split(LastOf(hs, IsContentType).value, <<";">>)[1])
                 /\ fn_result.value.charset =
                        StatedCharset(LastOf(hs, IsContentType).value)
            /\ Has(hs, IsTransferEncoding) =>
                 fn_result.value.encoding =
                     LowerAll(Trim(LastOf(hs, IsTransferEncoding).value))

\* the part of C13 that the scan does satisfy: mimeType and encoding are
\* those of the last header of their name
LastMimeTypeAndEncodingWin ==
    (HeadersDone /\ fn_args.headers.some /\ fn_result.kind = "ok") =>
        LET hs == fn_args.headers.v
        IN  /\ Has(hs, IsContentType) =>
                 fn_result.value.mimeType =
                     Trim(Split(LastOf(hs, IsContentType).value, <<";">>)[1])
            /\ Has(hs, IsTransferEncoding) =>
                 fn_result.value.encoding =
                     LowerAll(Trim(LastOf(hs, IsTransferEncoding).value))

(***************************************************************************)
(* replaceInlineAttachments (the message view).  HTML is a sequence of     *)
(* tokens; an attribute name, "=", a quote, "cid:", the local part of a    *)
(* content-id, "@" and its domain are tokens of their own.  A mapping      *)
(* (a Map) is a sequence of [cid, dataUri] with distinct cids, in          *)
(* insertion order.                                                        *)
(***************************************************************************)

Quotes == {"\"", "'"}

\* a match of a pattern compiled with the flag i
MatchesAtCI(t, pat, i) ==
    /\ i >= 1
    /\ i + Len(pat) - 1 <= Len(t)
    /\ \A k \in 1..Len(pat) : Lower(t[i + k - 1]) = Lower(pat[k])

\* cid.indexOf("@") > 0 ? cid.substring(0, atIndex) : cid
cidWithoutDomain(cid) ==
    LET at == IndexOf(cid, <<"@">>, 1)
    IN  IF at > 1 THEN SubSeq(cid, 1, at - 1) ELSE cid
HasDomain(cid) == IndexOf(cid, <<"@">>, 1) > 1

\* length of the match of (src|background)=(["']?)cid:<cid>\2 at i, 0 if none
AttrMatchLen(t, i, cid) ==
    IF ~(i + 2 <= Len(t) /\ Lower(t[i]) \in {"src", "background"} /\ t[i + 1] = "=")
    THEN 0
    ELSE IF t[i + 2] \in Quotes
    THEN IF /\ MatchesAtCI(t, <<"cid:">> \o cid, i + 3)
            /\ i + 4 + Len(cid) <= Len(t)
            /\ t[i + 4 + Len(cid)] = t[i + 2]
         THEN 5 + Len(cid) ELSE 0
    ELSE IF MatchesAtCI(t, <<"cid:">> \o cid, i + 2) THEN 3 + Len(cid) ELSE 0

\* replace(new RegExp(..., "gi"), (match, attr, quote) => attr=quote dataUri quote)
RECURSIVE ReplaceAttr(_, _, _, _)
ReplaceAttr(t, i, cid, dataUri) ==
    IF i > Len(t) THEN <<>>
    ELSE LET n == AttrMatchLen(t, i, cid)
             quote == IF t[i + 2] \in Quotes THEN <<t[i + 2]>> ELSE <<>>
         IN  IF n = 0 THEN <<t[i]>> \o ReplaceAttr(t, i + 1, cid, dataUri)
             ELSE <<t[i], "=">> \o quote \o dataUri \o quote
                    \o ReplaceAttr(t, i + n, cid, dataUri)

\* anyReplaced after the first pattern
AnyReplaced(t, cid) == \E i \in 1..Len(t) : AttrMatchLen(t, i, cid) > 0

\* encodeURIComponent on the tokens of `cid:${cid}`
EncodeToken(tok) ==
    CASE tok = "cid:" -> "cid%3A"
      [] tok = "@" -> "%40"
      [] OTHER -> tok
encodeURIComponent(text) == [k \in 1..Len(text) |-> EncodeToken(text[k])]

\* replace(new RegExp(escapeRegExp(encodedCid), "gi"), dataUri)
RECURSIVE ReplaceEncoded(_, _, _, _)
ReplaceEncoded(t, i, pat, dataUri) ==
    IF i > Len(t) THEN <<>>
    ELSE IF MatchesAtCI(t, pat, i)
    THEN dataUri \o ReplaceEncoded(t, i + Len(pat), pat, dataUri)
    ELSE <<t[i]>> \o ReplaceEncoded(t, i + 1, pat, dataUri)

\* length of the match of url\((['"]?)cid:<cid>\1\) at i, 0 if none
UrlMatchLen(t, i, cid) ==
    IF ~(i + 1 <= Len(t) /\ Lower(t[i]) = "url(") THEN 0
    ELSE IF t[i + 1] \in Quotes
    THEN IF /\ MatchesAtCI(t, <<"cid:">> \o cid, i + 2)
            /\ i + 4 + Len(cid) <= Len(t)
            /\ t[i + 3 + Len(cid)] = t[i + 1]
            /\ t[i + 4 + Len(cid)] = ")"
         THEN 5 + Len(cid) ELSE 0
    ELSE IF /\ MatchesAtCI(t, <<"cid:">> \o cid, i + 1)
            /\ i + 2 + Len(cid) <= Len(t)
            /\ t[i + 2 + Len(cid)] = ")"
         THEN 3 + Len(cid) ELSE 0

\* replace(new RegExp(`url\\((['"]?)cid:...\\1\\)`, "gi"), `url(${dataUri})`)
RECURSIVE ReplaceUrl(_, _, _, _)
ReplaceUrl(t, i, cid, dataUri) ==
    IF i > Len(t) THEN <<>>
    ELSE LET n == UrlMatchLen(t, i, cid)
         IN  IF n = 0 THEN <<t[i]>> \o ReplaceUrl(t, i + 1, cid, dataUri)
             ELSE <<"url(">> \o dataUri \o <<")">> \o ReplaceUrl(t, i + n, cid, dataUri)

\* if (!anyReplaced && atIndex > 0) ... cidWithoutDomain
ReplacePartial(t, cid, dataUri, replaced) ==
    IF ~replaced /\ HasDomain(cid)
    THEN ReplaceAttr(t, 1, cidWithoutDomain(cid), dataUri)
    ELSE t

\* the body of attachments.forEach((dataUri, cid) => { ... })
ReplaceOne(content, cid, dataUri) ==
    LET s1 == ReplaceAttr(content, 1, cid, dataUri)
        s2 == ReplacePartial(s1, cid, dataUri, AnyReplaced(content, cid))
        s3 == ReplaceEncoded(s2, 1, encodeURIComponent(<<"cid:">> \o cid), dataUri)
        s4 == ReplaceUrl(s3, 1, cid, dataUri)
    IN  IF HasDomain(cid) THEN ReplaceUrl(s4, 1, cidWithoutDomain(cid), dataUri)
        ELSE s4

RECURSIVE ReplaceEach(_, _, _)
ReplaceEach(content, attachments, k) ==
    IF k > Len(attachments) THEN content
    ELSE ReplaceEach(ReplaceOne(content, attachments[k].cid, attachments[k].dataUri),
                     attachments, k + 1)

\* replaceInlineAttachments(htmlContent, attachments)
replaceInlineAttachments(htmlContent, attachments) ==
    IF Len(attachments) = 0 THEN htmlContent
    ELSE ReplaceEach(htmlContent, attachments, 1)

\* ---- the calls of replaceInlineAttachments the model makes ----

\* most references in an HTML text, most entries of a mapping
MaxRefs == 2
MaxAttachments == 2

ContentIds == {<<"abc123", "@", "mail">>, <<"abc123">>, <<"img2">>}
ReferencedIds == {<<"abc123", "@", "mail">>, <<"abc123">>}
RefForms == {"srcQuoted", "srcUnquoted", "backgroundSingle", "styleUrl"}

\* two content-ids of which the first is a proper prefix of the second
ShortId == <<"img1">>
LongId == <<"img1", "0">>

\* the pieces an HTML text is made of
Segments ==
    {[form |-> f, id |-> c] : f \in RefForms, c \in ReferencedIds}
        \cup {[form |-> "text", id |-> <<>>],
              [form |-> "encoded", id |-> <<"abc123", "@", "mail">>]}
        \cup {[form |-> f, id |-> LongId] :
                 f \in {"srcQuoted", "srcUnquoted", "styleUrl", "encoded"}}

\* the text of a piece whose reference reads ref
SegmentWith(form, ref) ==
    CASE form = "srcQuoted" -> <<"<img ", "src", "=", "\"">> \o ref \o <<"\"", ">">>
      [] form = "srcUnquoted" -> <<"<img ", "SRC", "=">> \o ref \o <<">">>
      [] form = "backgroundSingle" ->
             <<"<td ", "background", "=", "'">> \o ref \o <<"'", ">">>
      [] form = "styleUrl" ->
             <<"<div style=\"background:", "url(">> \o ref \o <<")", "\">">>
      [] form = "encoded" -> <<"<img src=\"">> \o ref \o <<"\"", ">">>
      [] form = "text" -> <<"<p>", "hello", "</p>">>

SegmentText(seg) ==
    SegmentWith(seg.form,
                IF seg.form = "encoded"
                THEN encodeURIComponent(<<"cid:">> \o seg.id)
                ELSE <<"cid:">> \o seg.id)

RECURSIVE Flatten(_)
Flatten(texts) == IF texts = <<>> THEN <<>> ELSE Head(texts) \o Flatten(Tail(texts))

HtmlOf(segs) == Flatten([k \in 1..Len(segs) |-> SegmentText(segs[k])])

\* `data:${contentType};base64,${data}` for the payload of a content-id
Payload(cid) ==
    CASE cid = <<"abc123", "@", "mail">> -> "XYZ"
      [] cid = <<"abc123">> -> "UVW"
      [] cid = ShortId -> "ONE"
      [] cid = LongId -> "TEN"
      [] OTHER -> "RST"
DataUri(cid) == <<"data:", "image/png", ";base64,", Payload(cid)>>

\* mappings: distinct content-ids in insertion order, each with its data URI
Mappings ==
    {[k \in 1..Len(cs) |-> [cid |-> cs[k], dataUri |-> DataUri(cs[k])]] :
        cs \in {c \in SeqsUpTo(ContentIds \cup {ShortId, LongId}, MaxAttachments) :
                    \A i, j \in 1..Len(c) : i # j => c[i] # c[j]}}

InitReplace ==
    /\ FnIdle
    /\ FmIdle
    /\ EbIdle
    /\ PpIdle
    /\ FiIdle
    /\ VwIdle

\* replaceInlineAttachments(html, attachments)
ReplaceInline ==
    /\ fn_pc = "idle"
    /\ \E segs \in SeqsUpTo(Segments, MaxRefs), m \in Mappings :
         /\ fn_args' = [name |-> "replaceInlineAttachments", segments |-> segs,
                        htmlContent |-> HtmlOf(segs), attachments |-> m,
                        first |-> <<>>]
         /\ fn_result' = replaceInlineAttachments(HtmlOf(segs), m)
    /\ fn_pc' = "done"
    /\ UNCHANGED fnOthers

\* the resolver applied to its own output with the same mapping
ReplaceAgain ==
    /\ fn_pc = "done"
    /\ fn_args.name = "replaceInlineAttachments"
    /\ fn_args' = [fn_args EXCEPT !.first = fn_result]
    /\ fn_result' = replaceInlineAttachments(fn_result, fn_args.attachments)
    /\ fn_pc' = "again"
    /\ UNCHANGED fnOthers

NextReplace == ReplaceInline \/ ReplaceAgain

SpecReplace == InitReplace /\ [][NextReplace]_vars

\* ---- properties of replaceInlineAttachments ----

\* C15: replaceInlineAttachments is idempotent: applied to its own output with
\* the same mapping it returns that output unchanged; with an empty mapping
\* it returns the input unchanged
C15_Idempotent ==
    /\ (fn_pc = "again" /\ fn_args.name = "replaceInlineAttachments")
          => fn_result = fn_args.first
    /\ (fn_pc = "done" /\ fn_args.name = "replaceInlineAttachments"
          /\ fn_args.attachments = <<>>)
          => fn_result = fn_args.htmlContent

\* the part of C15 that holds: an empty mapping leaves the HTML unchanged
EmptyMappingIsNoOp ==
    (fn_pc = "done" /\ fn_args.name = "replaceInlineAttachments"
        /\ fn_args.attachments = <<>>)
        => fn_result = fn_args.htmlContent

\* two content-ids that differ at most by an @domain suffix
SameModuloDomain(a, b) == cidWithoutDomain(a) = cidWithoutDomain(b)

\* what a piece becomes when its reference is resolved to dataUri
Resolved(seg, dataUri) ==
    IF seg.form = "styleUrl"
    THEN <<"<div style=\"background:", "url(">> \o dataUri \o <<")", "\">">>
    ELSE SegmentWith(seg.form, dataUri)

ExpectedHtml(segs, entry) ==
    Flatten([k \in 1..Len(segs) |->
               IF segs[k].form \in RefForms /\ SameModuloDomain(segs[k].id, entry.cid)
               THEN Resolved(segs[k], entry.dataUri)
               ELSE SegmentText(segs[k])])

\* C16: every cid: reference in a src/background attribute or a style url()
\* whose content-id equals the mapping key, up to an @domain suffix on either
\* side, is rewritten to the mapped data URI; quoted or not, any case of the
\* attribute name
C16_EveryReferenceRewritten ==
    (/\ fn_pc = "done"
     /\ fn_args.name = "replaceInlineAttachments"
     /\ Len(fn_args.attachments) = 1
     /\ \A k \in 1..Len(fn_args.segments) : fn_args.segments[k].form # "encoded")
        => fn_result = ExpectedHtml(fn_args.segments, fn_args.attachments[1])

\* the scenario of C16 that the code does satisfy: one reference, and the
\* mapping key equal to the referenced content-id
ExactReferenceRewritten ==
    (/\ fn_pc = "done"
     /\ fn_args.name = "replaceInlineAttachments"
     /\ Len(fn_args.attachments) = 1
     /\ Len(fn_args.segments) = 1
     /\ fn_args.segments[1].form \in RefForms
     /\ fn_args.segments[1].id = fn_args.attachments[1].cid)
        => fn_result = ExpectedHtml(fn_args.segments, fn_args.attachments[1])

ReplaceDone == fn_pc = "done" /\ fn_args.name = "replaceInlineAttachments"
Occurs(tok, text) == \E k \in 1..Len(text) : text[k] = tok

\* C30: when one content-id is a proper prefix of another (img1 and img10), a
\* reference cid:img10 is never rewritten, wholly or partly, with the data
\* URI of the entry for img1, whatever the quoting of the attribute value and
\* the order of the mapping (no HTML of the model refers to img1 itself)
C30_NoPrefixRewrite ==
    ReplaceDone => ~Occurs(Payload(ShortId), fn_result)

\* the same for references in quoted attribute values and in style url()
NoPrefixRewriteWhenDelimited ==
    (/\ ReplaceDone
     /\ \A k \in 1..Len(fn_args.segments) :
           fn_args.segments[k].form \notin {"srcUnquoted", "encoded"})
        => ~Occurs(Payload(ShortId), fn_result)

(***************************************************************************)
(* The message view: inline attachments referenced by attachmentId are     *)
(* first entered in the mapping as placeholders and fetched; every payload *)
(* that arrives updates the mapping and the HTML shown.                    *)
(***************************************************************************)

ViewSegments ==
    {[form |-> "srcQuoted", id |-> <<"abc123", "@", "mail">>],
     [form |-> "srcQuoted", id |-> <<"img2">>],
     [form |-> "styleUrl", id |-> <<"abc123">>],
     [form |-> "text", id |-> <<>>]}

\* the attachmentId of the part with a content-id
AttachmentIdOf(cid) ==
    CASE cid = <<"abc123", "@", "mail">> -> "ATT1"
      [] cid = <<"abc123">> -> "ATT2"
      [] OTHER -> "ATT3"

\* `data:${contentType};base64,placeholder_for_${attachmentId}`
PlaceholderUri(cid) ==
    <<"data:", "image/png", ";base64,", "placeholder_for_", AttachmentIdOf(cid)>>

\* inline parts with distinct content-ids; hasData: body.data is present,
\* otherwise the part carries body.attachmentId only
InlineParts ==
    {ps \in SeqsUpTo([cid : ContentIds, hasData : BOOLEAN], MaxAttachments) :
        \A i, j \in 1..Len(ps) : i # j => ps[i].cid # ps[j].cid}

\* Map.prototype.set: an existing key keeps its place
MapSet(m, cid, dataUri) ==
    IF \E k \in 1..Len(m) : m[k].cid = cid
    THEN [k \in 1..Len(m) |->
             IF m[k].cid = cid THEN [cid |-> cid, dataUri |-> dataUri] ELSE m[k]]
    ELSE Append(m, [cid |-> cid, dataUri |-> dataUri])

\* processEmailPart on the inline parts from the k-th on: data present -> its
\* data URI, attachmentId only -> the placeholder
RECURSIVE CollectInline(_, _, _)
CollectInline(parts, k, m) ==
    IF k > Len(parts) THEN m
    ELSE CollectInline(parts, k + 1,
            MapSet(m, parts[k].cid,
                   IF parts[k].hasData THEN DataUri(parts[k].cid)
                   ELSE PlaceholderUri(parts[k].cid)))

\* the fetches a render starts: one per part that carries an attachmentId
\* only, in the order of the parts
RECURSIVE FetchesOf(_, _, _)
FetchesOf(render, parts, k) ==
    IF k > Len(parts) THEN <<>>
    ELSE (IF parts[k].hasData THEN <<>> ELSE <<[render |-> render, cid |-> parts[k].cid]>>)
            \o FetchesOf(render, parts, k + 1)

\* a rewrite pass that starts from the HTML already shown
RewriteInput_Shown(original, shown) == shown

\* the HTML the rewrite pass after an arrival starts from
RewriteInput(original, shown) == original

InitView ==
    /\ VwIdle
    /\ FnIdle
    /\ FmIdle
    /\ EbIdle
    /\ PpIdle
    /\ FiIdle

\* the view renders: findContentAndAttachments, the first rewrite pass, and
\* the fetches it starts
Render ==
    /\ vw_pc = "idle"
    /\ \E segs \in SeqsUpTo(ViewSegments, MaxRefs), parts \in InlineParts :
         LET m == CollectInline(parts, 1, <<>>)
         IN  /\ vw_parts' = parts
             /\ html' = HtmlOf(segs)
             /\ inlineAttachments' = m
             /\ processedHtmlState' =
                    IF HtmlOf(segs) # <<>>
                    THEN replaceInlineAttachments(HtmlOf(segs), m) ELSE <<>>
             /\ fetching' = {parts[k].cid : k \in {j \in 1..Len(parts) : ~parts[j].hasData}}
    /\ loaded' = <<>>
    /\ started' = FetchesOf(1, vw_parts', 1)
    /\ vw_pc' = "rendered"
    /\ UNCHANGED vwOthers

\* fetchAttachment(...).then((base64Data) => ...) with a payload
AttachmentLoaded ==
    /\ vw_pc = "rendered"
    /\ \E cid \in fetching :
         LET m == MapSet(inlineAttachments, cid, DataUri(cid))
         IN  /\ inlineAttachments' = m
             /\ processedHtmlState' =
                    IF html # <<>>
                    THEN replaceInlineAttachments(
                             RewriteInput(html, processedHtmlState), m)
                    ELSE processedHtmlState
             /\ fetching' = fetching \ {cid}
             /\ loaded' = Append(loaded, cid)
    /\ UNCHANGED <<vw_pc, vw_parts, html, started>>
    /\ UNCHANGED vwOthers

\* fetchAttachment caught an error and resolved with ""
AttachmentFailed ==
    /\ vw_pc = "rendered"
    /\ \E cid \in fetching : fetching' = fetching \ {cid}
    /\ UNCHANGED <<vw_pc, vw_parts, html, inlineAttachments, processedHtmlState, loaded,
                   started>>
    /\ UNCHANGED vwOthers

NextView == Render \/ AttachmentLoaded \/ AttachmentFailed

SpecView == InitView /\ [][NextView]_vars

\* ---- properties of the view ----

Arrived(cid) == \E k \in 1..Len(loaded) : loaded[k] = cid

\* the parts as they would be if every payload that has arrived had been in
\* the message from the start
WithArrivedData ==
    [k \in 1..Len(vw_parts) |->
        [cid |-> vw_parts[k].cid,
         hasData |-> vw_parts[k].hasData \/ Arrived(vw_parts[k].cid)]]

MaxRenders == 3

\* the messages displayed: both attachments by attachmentId, one of them, or
\* none, and an HTML body that refers to them
RenderedParts ==
    {ps \in InlineParts :
        \A k \in 1..Len(ps) : ps[k].cid \in {<<"abc123", "@", "mail">>, <<"img2">>}}
RenderedSegments ==
    {[form |-> "srcQuoted", id |-> <<"abc123", "@", "mail">>],
     [form |-> "srcQuoted", id |-> <<"img2">>]}

\* setProcessedHtmlState(next): React renders again only when the state changed
StateSet(current, next) ==
    [state |-> next, pc |-> IF next = current THEN "same" ELSE "render"]

InitRerender ==
    /\ VwIdle
    /\ FnIdle
    /\ FmIdle
    /\ EbIdle
    /\ PpIdle
    /\ FiIdle

\* the first render and its effect: findContentAndAttachments, the fetches
\* it starts, and setProcessedHtmlState(processedHtml)
Mount ==
    /\ vw_pc = "idle"
    /\ \E segs \in SeqsUpTo(RenderedSegments, MaxRefs), parts \in RenderedParts :
         LET m == CollectInline(parts, 1, <<>>)
             processedHtml == IF HtmlOf(segs) # <<>>
                              THEN replaceInlineAttachments(HtmlOf(segs), m) ELSE <<>>
         IN  /\ vw_parts' = parts
             /\ html' = HtmlOf(segs)
             /\ inlineAttachments' = <<m>>
             /\ fetching' = {FetchesOf(1, parts, 1)[k] :
                                k \in 1..Len(FetchesOf(1, parts, 1))}
             /\ started' = FetchesOf(1, parts, 1)
             /\ processedHtmlState' = processedHtml
             /\ vw_pc' = IF processedHtml # <<>> THEN "render" ELSE "stable"
    /\ loaded' = <<>>
    /\ UNCHANGED vwOthers

\* a render after a state change: findContentAndAttachments again, with a new
\* Map and new fetches; processedHtml is the same string, so its effect does
\* not run
Rerender ==
    /\ vw_pc = "render"
    /\ Len(inlineAttachments) < MaxRenders
    /\ LET r == Len(inlineAttachments) + 1
       IN  /\ inlineAttachments' = Append(inlineAttachments,
                                          CollectInline(vw_parts, 1, <<>>))
           /\ fetching' = fetching \cup
                  {FetchesOf(r, vw_parts, 1)[k] : k \in 1..Len(FetchesOf(r, vw_parts, 1))}
           /\ started' = started \o FetchesOf(r, vw_parts, 1)
    /\ vw_pc' = "stable"
    /\ UNCHANGED <<vw_parts, html, processedHtmlState, loaded>>
    /\ UNCHANGED vwOthers

\* fetchAttachment(...).then of a fetch resolves with a payload: the Map of
\* its render is updated, the event is dispatched and handled
FetchLoaded ==
    /\ vw_pc \in {"render", "stable"}
    /\ \E f \in fetching :
         LET m == MapSet(inlineAttachments[f.render], f.cid, DataUri(f.cid))
             set == StateSet(processedHtmlState, replaceInlineAttachments(html, m))
         IN  /\ inlineAttachments' = [inlineAttachments EXCEPT ![f.render] = m]
             /\ fetching' = fetching \ {f}
             /\ loaded' = Append(loaded, f.cid)
             /\ IF html # <<>>
                THEN /\ processedHtmlState' = set.state
                     /\ vw_pc' = IF set.pc = "render" THEN "render" ELSE vw_pc
                ELSE UNCHANGED <<processedHtmlState, vw_pc>>
    /\ UNCHANGED <<vw_parts, html, started>>
    /\ UNCHANGED vwOthers

\* fetchAttachment caught an error and resolved with "": nothing is updated
FetchFailed ==
    /\ vw_pc \in {"render", "stable"}
    /\ \E f \in fetching : fetching' = fetching \ {f}
    /\ UNCHANGED <<vw_pc, vw_parts, html, inlineAttachments, processedHtmlState, loaded,
                   started>>
    /\ UNCHANGED vwOthers

NextRerender == Mount \/ Rerender \/ FetchLoaded \/ FetchFailed

SpecRerender == InitRerender /\ [][NextRerender]_vars

\* ---- properties of the view over its renders ----

HasPlaceholder(text) == \E k \in 1..Len(text) : text[k] = "placeholder_for_"

\* the HTML shown has every inline image resolved to real data
FullyResolved(text) == text # <<>> /\ ~HasPlaceholder(text)

\* C26: once the HTML shown has every inline image resolved to real data (no
\* placeholder_for_ URI), no later fetch completion, event or render
\* replaces it with HTML that again contains a placeholder
C26_ResolvedStaysResolved ==
    [][FullyResolved(processedHtmlState) => ~HasPlaceholder(processedHtmlState')]_vars

\* number of fetches started for the attachment of a content-id
FetchesStarted(cid) == Cardinality({k \in 1..Len(started) : started[k].cid = cid})

\* C27: for one displayed message every attachment referenced by
\* attachmentId is fetched at most once: a re-render starts no fetch for an
\* attachment that was already fetched or is in flight
C27_NoRefetchOnRerender ==
    \A k \in 1..Len(vw_parts) : FetchesStarted(vw_parts[k].cid) <= 1

(***************************************************************************)
(* decodeData called on its own: the variant of src/server/gmail and the   *)
(* variant of apps/web/app/mail/[id]/_utils                                *)
(***************************************************************************)

\* longest data string
MaxData == 3

DataChars == {"S", "G", "k", "-", "_", "="}
EncodingNames ==
    {<<"base64">>, <<"quoted-printable">>, <<"8bit">>, <<"7bit">>,
     <<"binary">>, <<"x-uuencode">>}

\* decodeBase64Url of the web variant: the same steps, the string is returned
decodeBase64UrlWeb(base64Url) == Return(decodeBase64Url(base64Url).value)

\* decodeData of apps/web/app/mail/[id]/_utils/decode-data.ts
decodeDataWeb(data, encoding) ==
    CASE encoding = <<"base64">> -> Return(BufferFromBase64(data))
      [] encoding \in {<<"quoted-printable">>, <<"8bit">>} -> decodeBase64UrlWeb(data)
      [] OTHER -> Throw(<<"Unsupported encoding:">> \o encoding)

InitDecode ==
    /\ FnIdle
    /\ FmIdle
    /\ EbIdle
    /\ PpIdle
    /\ FiIdle
    /\ VwIdle

\* one call of decodeData of the server module
DecodeData ==
    /\ fn_pc = "idle"
    /\ \E data \in SeqsUpTo(DataChars, MaxData), encoding \in EncodingNames :
         /\ fn_args' = [name |-> "decodeData", variant |-> "server",
                        data |-> data, encoding |-> encoding]
         /\ fn_result' = decodeData(data, encoding)
    /\ fn_pc' = "done"
    /\ UNCHANGED fnOthers

\* one call of decodeData of the web module
DecodeDataWeb ==
    /\ fn_pc = "idle"
    /\ \E data \in SeqsUpTo(DataChars, MaxData), encoding \in EncodingNames :
         /\ fn_args' = [name |-> "decodeData", variant |-> "web",
                        data |-> data, encoding |-> encoding]
         /\ fn_result' = decodeDataWeb(data, encoding)
    /\ fn_pc' = "done"
    /\ UNCHANGED fnOthers

NextDecode == DecodeData \/ DecodeDataWeb

SpecDecode == InitDecode /\ [][NextDecode]_vars

\* ---- properties of decodeData ----

DecodeDone == fn_pc = "done" /\ fn_args.name = "decodeData"
DecodeFailed == fn_result.kind \in {"err", "throw"}
SupportedEncodings == {<<"base64">>, <<"quoted-printable">>, <<"8bit">>, <<"7bit">>}

\* substitute - and _ by + and /, pad with = to a multiple of 4, decode
UrlSafeDecode(data) ==
    LET std == [k \in 1..Len(data) |->
                   CASE data[k] = "-" -> "+" [] data[k] = "_" -> "/" [] OTHER -> data[k]]
        padded == std \o [k \in 1..((4 - (Len(std) % 4)) % 4) |-> "="]
    IN  BufferFromBase64(padded)

DecodesAsClaimed ==
    /\ fn_args.encoding \notin SupportedEncodings => DecodeFailed
    /\ fn_args.encoding \in SupportedEncodings => ~DecodeFailed
    /\ fn_args.encoding \in SupportedEncodings \ {<<"base64">>} =>
          /\ ~DecodeFailed
          /\ fn_result.value = UrlSafeDecode(fn_args.data)

\* C17: decodeData accepts exactly base64, quoted-printable, 8bit and 7bit,
\* fails with unsupported-encoding for any other name, and for
\* quoted-printable, 8bit and 7bit returns the URL-safe base64 decode of the
\* input
C17_DecodeDataEncodings == DecodeDone => DecodesAsClaimed

\* the same statement for the decodeData of src/server/gmail alone, which
\* satisfies it
ServerDecodeDataEncodings ==
    (DecodeDone /\ fn_args.variant = "server") => DecodesAsClaimed

(***************************************************************************)
(* fetchInfiniteMessages (src/server/gmail/api.ts)                         *)
(***************************************************************************)

ListStatuses == {200, 401, 403, 429, 500}
BatchStatuses == {200, 401, 403, 429, 500, 503}

\* what response.json() of the list answer gives: a rejection, a value the
\* schema refuses, the error object of a refused request, or a message list
ListBodies(status) ==
    IF status = 200
    THEN {[kind |-> "notJson"], [kind |-> "invalid"]} \cup
         {[kind |-> "list", messages |-> [k \in 1..n |-> ToString(k)],
           nextPageToken |-> t] : n \in 0..MaxListed, t \in NextTokens}
    ELSE {[kind |-> "notJson"], [kind |-> "errorObject"]}

\* what one part of the batch answer holds
PartOutcomes == {"message", "rateLimited", "malformed"}

\* the body of the batch answer: one part per request, or the error text of
\* a refused batch
BatchBodies(status, n) ==
    IF status = 200
    THEN {[kind |-> "multipart", parts |-> ps] : ps \in [1..n -> PartOutcomes]}
    ELSE {[kind |-> "errorText", parts |-> <<>>]}

\* parseMultipartMixed and the loop over its parts: the messages delivered
RECURSIVE DeliveredMessages(_, _, _)
DeliveredMessages(ids, parts, k) ==
    IF k > Len(parts) THEN <<>>
    ELSE (IF parts[k] = "message" THEN <<ids[k]>> ELSE <<>>)
            \o DeliveredMessages(ids, parts, k + 1)

\* a test that lets 403 through
BatchFatal_ServerOnly(status) == status >= 500

\* batchResponse.status >= 500 || batchResponse.status === 403
BatchFatal(status) == status >= 500 \/ status = 403

InitInfinite ==
    /\ FiIdle
    /\ FnIdle
    /\ FmIdle
    /\ EbIdle
    /\ PpIdle
    /\ VwIdle

\* the call, up to the list request
InfiniteFetchList ==
    /\ fi_pc = "idle"
    /\ \E c \in PageTokens \cup {None} :
         /\ fi_pageToken' = c
         /\ fi_trace' = <<[kind |-> "list", cursor |-> c]>>
    /\ fi_pc' = "listing"
    /\ UNCHANGED <<fi_list, fi_result>>
    /\ UNCHANGED fiOthers

\* fetch of the list rejects
InfiniteListRejected ==
    /\ fi_pc = "listing"
    /\ fi_trace' = Append(fi_trace, [kind |-> "listRejected"])
    /\ fi_result' = Err(<<"fetch failed">>)
    /\ fi_pc' = "done"
    /\ UNCHANGED <<fi_pageToken, fi_list>>
    /\ UNCHANGED fiOthers

\* the list request is answered: lines 795-859, up to the batch POST
InfiniteListAnswered ==
    /\ fi_pc = "listing"
    /\ \E status \in ListStatuses :
       \E body \in ListBodies(status) :
         /\ fi_trace' =
              LET answered == Append(fi_trace, [kind |-> "listAnswer", status |-> status])
              IN  IF status # 401 /\ body.kind = "list" /\ body.messages # <<>>
                  THEN Append(answered,
                              [kind |-> "batch", ids |-> Slice(body.messages, BATCH_SIZE)])
                  ELSE answered
         /\ IF status = 401
            THEN /\ fi_result' =
                      Err(<<"Gmail API access unauthorized. Re-authentication required.">>)
                 /\ fi_pc' = "done"
                 /\ UNCHANGED fi_list
            ELSE IF body.kind = "notJson"
            THEN /\ fi_result' = Err(<<"Unexpected token in JSON">>)
                 /\ fi_pc' = "done"
                 /\ UNCHANGED fi_list
            ELSE IF body.kind = "invalid"
            THEN /\ fi_result' =
                      Err(<<"Failed to parse message list response from Gmail.">>)
                 /\ fi_pc' = "done"
                 /\ UNCHANGED fi_list
            ELSE IF body.kind = "errorObject"
            THEN /\ fi_list' = [messages |-> <<>>, nextPageToken |-> None]
                 /\ fi_result' = Ok([messages |-> <<>>, nextCursor |-> None])
                 /\ fi_pc' = "done"
            ELSE /\ fi_list' = [messages |-> body.messages,
                                nextPageToken |-> body.nextPageToken]
                 /\ IF body.messages = <<>>
                    THEN /\ fi_result' = Ok([messages |-> <<>>,
                                             nextCursor |-> body.nextPageToken])
                         /\ fi_pc' = "done"
                    ELSE /\ fi_pc' = "batching"
                         /\ UNCHANGED fi_result
    /\ UNCHANGED fi_pageToken
    /\ UNCHANGED fiOthers

\* fetch of the batch rejects
InfiniteBatchRejected ==
    /\ fi_pc = "batching"
    /\ fi_trace' = Append(fi_trace, [kind |-> "batchRejected"])
    /\ fi_result' = Err(<<"fetch failed">>)
    /\ fi_pc' = "done"
    /\ UNCHANGED <<fi_pageToken, fi_list>>
    /\ UNCHANGED fiOthers

\* the batch POST is answered: lines 877-957
InfiniteBatchAnswered ==
    /\ fi_pc = "batching"
    /\ \E status \in BatchStatuses :
       \E body \in BatchBodies(status, Len(Slice(fi_list.messages, BATCH_SIZE))) :
         /\ fi_trace' = Append(fi_trace, [kind |-> "batchAnswer", status |-> status])
         /\ fi_result' =
              IF status = 401
              THEN Err(<<"Gmail API access unauthorized during batch request.">>)
              ELSE IF ~(status \in 200..299) /\ BatchFatal(status)
              THEN Err(<<"Gmail batch request failed:", ToString(status)>>)
              ELSE Ok([messages |->
                          DeliveredMessages(Slice(fi_list.messages, BATCH_SIZE),
                                            body.parts, 1),
                       nextCursor |-> fi_list.nextPageToken])
    /\ fi_pc' = "done"
    /\ UNCHANGED <<fi_pageToken, fi_list>>
    /\ UNCHANGED fiOthers

NextInfinite ==
    \/ InfiniteFetchList
    \/ InfiniteListRejected
    \/ InfiniteListAnswered
    \/ InfiniteBatchRejected
    \/ InfiniteBatchAnswered

SpecInfinite == InitInfinite /\ [][NextInfinite]_vars

\* ---- properties of fetchInfiniteMessages ----

InfiniteDone == fi_pc = "done"
ListAnsweredWith(status) ==
    \E i \in 1..Len(fi_trace) :
        fi_trace[i].kind = "listAnswer" /\ fi_trace[i].status = status
BatchAnsweredWith(status) ==
    \E i \in 1..Len(fi_trace) :
        fi_trace[i].kind = "batchAnswer" /\ fi_trace[i].status = status
Unauthorized ==
    {Err(<<"Gmail API access unauthorized. Re-authentication required.">>),
     Err(<<"Gmail API access unauthorized during batch request.">>)}

\* C18: a 401 answer to the list or the batch request yields the
\* unauthorized error, a 403 or 5xx answer to the batch request yields a
\* failure; never a success result
C18_AuthAndFatalErrors ==
    InfiniteDone =>
        /\ (ListAnsweredWith(401) \/ BatchAnsweredWith(401)) => fi_result \in Unauthorized
        /\ (\E st \in BatchStatuses : (st = 403 \/ st >= 500) /\ BatchAnsweredWith(st))
              => /\ fi_result.kind = "err"
                 /\ fi_result \notin Unauthorized

\* the batch request of a listed page was answered 403
C18_Witness ==
    /\ InfiniteDone
    /\ fi_list.messages # <<>>
    /\ BatchAnsweredWith(403)
    /\ fi_result.kind = "err"

\* position of a request that was answered 429
RateLimitedAt(i) ==
    /\ fi_trace[i].kind \in {"listAnswer", "batchAnswer"}
    /\ fi_trace[i].status = 429

\* C19: a 429 answer to the list or the batch request is followed by a retry
\* of the same request, and the call never returns success with an empty
\* message list and the cursor of the next page when the listed messages
\* were not delivered because of rate limiting
C19_RateLimitRetried ==
    InfiniteDone =>
        /\ \A i \in 1..Len(fi_trace) :
             RateLimitedAt(i) =>
                \E j \in (i + 1)..Len(fi_trace) : fi_trace[j] = fi_trace[i - 1]
        /\ ~(/\ BatchAnsweredWith(429)
             /\ fi_result.kind = "ok"
             /\ fi_result.value.messages = <<>>
             /\ fi_list.messages # <<>>
             /\ fi_result.value.nextCursor = fi_list.nextPageToken)

\* the second half alone: the cursor is not advanced past undelivered messages
NoAdvanceWhenBatchRateLimited ==
    InfiniteDone =>
        ~(/\ BatchAnsweredWith(429)
          /\ fi_result.kind = "ok"
          /\ fi_result.value.messages = <<>>
          /\ fi_list.messages # <<>>
          /\ fi_result.value.nextCursor = fi_list.nextPageToken)

(***************************************************************************)
(* Per-entity batch operations (src/server/gmail/api.ts)                   *)
(***************************************************************************)

\* bound on the responses executeBatch hands back
MaxResponses == 2

EntityOps == {"batchGetAttachments", "batchGetMessages", "batchGetThreads",
              "batchModifyMessages", "batchTrashMessages", "batchUntrashMessages"}

\* the schema each operation validates with
SchemaOf(op) ==
    CASE op = "batchGetAttachments" -> "MessageAttachmentSchema"
      [] op = "batchGetThreads"     -> "ThreadSchema"
      [] OTHER                      -> "MessageSchema"

\* a body is described by the schema it conforms to ("none" when it conforms
\* to none) and by whether it carries keys the schema does not declare
ResponseBodies(op) ==
    {[conforms |-> c, extraKeys |-> e] : c \in {SchemaOf(op), "none"}, e \in BOOLEAN}

\* z.object(...).safeParse: unknown keys are stripped from the parsed value
safeParse(schema, body) ==
    IF body.conforms = schema
    THEN [success |-> TRUE, data |-> [conforms |-> schema, extraKeys |-> FALSE]]
    ELSE [success |-> FALSE, data |-> body]

\* what executeBatch can hand back
BatchResponses(op) ==
    [id : {"r-0", "r-1"}, status : {200, 404},
     headers : {<<>>, <<"content-type: application/json">>},
     body : ResponseBodies(op)]

\* validation applied to every response, whatever its status
ValidateResponse_AnyStatus(op, response) ==
    LET result == safeParse(SchemaOf(op), response.body)
    IN  IF result.success THEN [response EXCEPT !.body = result.data] ELSE response

\* the callback of responses.map
ValidateResponse(op, response) ==
    IF response.status = 200
    THEN LET result == safeParse(SchemaOf(op), response.body)
         IN  IF result.success
             THEN [response EXCEPT !.body = result.data]
             ELSE response
    ELSE response

\* const [responses, error] = await executeBatch(...); if (error) return err(error)
EntityBatch(op, outcome) ==
    IF outcome.kind = "err"
    THEN outcome
    ELSE Ok([k \in 1..Len(outcome.value) |-> ValidateResponse(op, outcome.value[k])])

InitEntity ==
    /\ FnIdle
    /\ FmIdle
    /\ EbIdle
    /\ PpIdle
    /\ FiIdle
    /\ VwIdle

\* one call of a per-entity batch operation whose executeBatch succeeds
EntityBatchAnswered ==
    /\ fn_pc = "idle"
    /\ \E op \in EntityOps :
       \E responses \in SeqsUpTo(BatchResponses(op), MaxResponses) :
         /\ fn_args' = [name |-> op, outcome |-> Ok(responses)]
         /\ fn_result' = EntityBatch(op, Ok(responses))
    /\ fn_pc' = "done"
    /\ UNCHANGED fnOthers

\* one call of a per-entity batch operation whose executeBatch fails
EntityBatchFailed ==
    /\ fn_pc = "idle"
    /\ \E op \in EntityOps :
       \E error \in {<<"Batch request failed">>, <<"Batch size exceeds 100">>} :
         /\ fn_args' = [name |-> op, outcome |-> Err(error)]
         /\ fn_result' = EntityBatch(op, Err(error))
    /\ fn_pc' = "done"
    /\ UNCHANGED fnOthers

NextEntity == EntityBatchAnswered \/ EntityBatchFailed

SpecEntity == InitEntity /\ [][NextEntity]_vars

\* ---- properties of the per-entity batch operations ----

EntityDone == fn_pc = "done" /\ fn_args.name \in EntityOps

\* C21: a per-entity batch operation returns one response per response of
\* executeBatch, in the same order and with the same id, status and headers;
\* a status-200 response whose body fails validation keeps its raw body, and
\* a response with another status is returned as it was
C21_ResponsesPreserved ==
    (EntityDone /\ fn_args.outcome.kind = "ok") =>
        LET given == fn_args.outcome.value
        IN  /\ fn_result.kind = "ok"
            /\ Len(fn_result.value) = Len(given)
            /\ \A k \in 1..Len(given) :
                 LET r == fn_result.value[k]
                 IN  /\ r.id = given[k].id
                     /\ r.status = given[k].status
                     /\ r.headers = given[k].headers
                     /\ (given[k].status = 200 /\ given[k].body.conforms = "none")
                            => r.body = given[k].body
                     /\ given[k].status # 200 => r = given[k]

\* a call whose responses hold a status-200 body that fails validation and
\* a 404 whose body would pass it with keys stripped
C21_Witness ==
    /\ EntityDone
    /\ fn_args.outcome.kind = "ok"
    /\ fn_result.kind = "ok"
    /\ \E i, k \in 1..Len(fn_args.outcome.value) :
         /\ fn_args.outcome.value[i].status = 200
         /\ fn_args.outcome.value[i].body.conforms = "none"
         /\ fn_args.outcome.value[k].status = 404
         /\ fn_args.outcome.value[k].body = [conforms |-> SchemaOf(fn_args.name),
                                             extraKeys |-> TRUE]

====
